---------------------------- MODULE Spec2Model ----------------------------
(***************************************************************************)
(* Codeplug codec of rt73.py: the field schemas, Parser.fromBytes and      *)
(* Parser.toBytes, the layout planner, compileCodeplug and                 *)
(* decompileCodeplug, as a state machine that compiles a document, reads   *)
(* the image back and compiles the decoded document again.                 *)
(*                                                                         *)
(* A byte buffer (bytearray) is [len, b, err]: b holds the non-zero bytes  *)
(* only, keyed by address, so two buffers are equal exactly when they are  *)
(* byte-for-byte identical; err is the Python exception that ended the     *)
(* operation that built it ("ok" when none).  A str is the sequence of     *)
(* its character codes; CTCSS frequencies are held in tenths of a hertz.   *)
(***************************************************************************)
EXTENDS Integers, Sequences, FiniteSets, TLC

\* ------------------------------------------------------------ constants
channel_record_size == 32
zone_record_size == 32
contact_record_size == 16
message_record_size == 40
rx_group_record_size == 210
scan_list_record_size == 216

channel_count_address == 5009
contact_count_address == 5011
zone_count_address == 5007

contact_start_address == 111616
rx_group_start_address == 59071
scan_list_start_address == 5071

message_block_1_start_addr == 4014
message_block_1_count == 15
message_block_2_start_addr == 299
message_block_2_count == 85

aprs_dmr_channel_start_address == 3659

CTCSS_Tones ==
  << 625, 670, 693, 719, 744, 770, 797, 825, 854, 885, 915, 948, 974, 1000, 1035, 1072, 1109,
     1148, 1188, 1230, 1273, 1318, 1365, 1413, 1462, 1514, 1567, 1598, 1622, 1655, 1679, 1713,
     1738, 1773, 1799, 1835, 1862, 1899, 1928, 1966, 1995, 2035, 2065, 2107, 2181, 2257, 2291,
     2336, 2418, 2503, 2541 >>

DCS_Codes ==
  << 17, 23, 25, 26, 31, 32, 36, 43, 47, 50, 51, 53, 54, 65, 71, 72, 73, 74, 114, 115, 116,
     122, 125, 131, 132, 134, 143, 145, 152, 155, 156, 162, 165, 172, 174, 205, 212, 223, 225,
     226, 243, 244, 245, 246, 251, 252, 255, 261, 263, 265, 266, 271, 274, 306, 311, 315, 325,
     331, 332, 343, 346, 351, 356, 364, 365, 371, 411, 412, 413, 423, 431, 432, 445, 446, 452,
     454, 455, 462, 464, 465, 466, 503, 506, 516, 523, 526, 532, 546, 565, 606, 612, 624, 627,
     631, 632, 645, 646, 654, 662, 664, 703, 712, 723, 731, 732, 734, 743, 754 >>

Button_IDs ==
  << <<0, "UNDEFINED">>,
     <<1, "HI_LO_POWER">>,
     <<2, "BACKLIGHT_TOGGLE">>,
     <<3, "KEYLOCK_TOGGLE">>,
     <<4, "VOX">>,
     <<5, "ZONE_SWITCH">>,
     <<6, "SCAN">>,
     <<7, "SCAN_MODE_TOGGLE">>,
     <<8, "RPTR_TALKAROUND">>,
     <<9, "EMERGENCY_ALARM">>,
     <<10, "ENCRYPTION_TOGGLE">>,
     <<11, "CONTACTS">>,
     <<12, "SMS">>,
     <<13, "RADIO_REVIVE">>,
     <<14, "RADIO_DETECTION">>,
     <<15, "RADIO_KILL">>,
     <<16, "REMOTE_MONITOR">>,
     <<17, "MONITOR">>,
     <<18, "PERMANENT_MONITOR">>,
     <<19, "TONEBURST_1750HZ">>,
     <<49, "DTMF_TOGGLE">>,
     <<52, "ROAM_TOGGLE">>,
     <<27, "GPS_TOGGLE">>,
     <<40, "MENU">>,
     <<55, "UP">>,
     <<56, "DOWN">>,
     <<57, "BACK">>,
     <<58, "DQT_QT">>,
     <<59, "A_B_TOGGLE">>,
     <<60, "VOL">>,
     <<61, "VFO">>,
     <<62, "MANDATORY_MONITOR">>,
     <<63, "DUAL_WATCH_TOGGLE">> >>

\* ------------------------------------------------------- byte arithmetic
RECURSIVE BitAnd(_, _)
\* x & y of two naturals
BitAnd(x, y) ==
  IF x = 0 \/ y = 0 THEN 0
  ELSE (x % 2) * (y % 2) + 2 * BitAnd(x \div 2, y \div 2)

\* x | y of two naturals
BitOr(x, y) == x + y - BitAnd(x, y)

\* v & mask for a Python int v of either sign and a mask below 256
MaskInt(v, mask) == BitAnd(v % 256, mask)

RECURSIVE Pow256(_)
Pow256(w) == IF w = 0 THEN 1 ELSE 256 * Pow256(w - 1)

\* int(a / b) for b > 0: true division, then truncation toward zero
TruncDiv(a, b) == IF a >= 0 THEN a \div b ELSE -((-a) \div b)

Min(a, b) == IF a < b THEN a ELSE b
Max(a, b) == IF a > b THEN a ELSE b

\* the value of Op at v, with v evaluated once
Once(Op(_), v) == CHOOSE r \in {Op(x) : x \in {v}} : TRUE

\* a Python loop "for i in range(lo, hi + 1): acc = Op(acc, i)" over a value
\* that carries the exception raised so far, which ends the loop; the range
\* is split in halves, which is the same left-to-right composition
FoldRange(Op(_, _), acc, lo, hi) ==
  LET RECURSIVE F(_, _, _)
      F(a, l, h) ==
        IF a.err # "ok" \/ l > h THEN a
        ELSE IF l = h THEN Op(a, l)
        ELSE Once(LAMBDA x : F(x, (l + h) \div 2 + 1, h), F(a, l, (l + h) \div 2))
  IN Once(LAMBDA x : F(x, lo, hi), acc)

\* ------------------------------------------------------------- buffers
NoBytes == [a \in {} |-> 0]

\* bytearray(n) / bytearray(b"\x00" * n)
Zeros(n) == [len |-> n, b |-> NoBytes, err |-> "ok"]

Raise(m, e) == IF m.err = "ok" THEN [m EXCEPT !.err = e] ELSE m

\* data[a] of a buffer whose index a is in range
Rd(m, a) == IF a \in DOMAIN m.b THEN m.b[a] ELSE 0

SetB(b, a, v) ==
  IF v = 0 THEN [x \in DOMAIN b \ {a} |-> b[x]]
  ELSE [x \in DOMAIN b \cup {a} |-> IF x = a THEN v ELSE b[x]]

\* data[a] = v
Put(m, a, v) ==
  IF m.err # "ok" THEN m
  ELSE IF a < 0 \/ a >= m.len THEN Raise(m, "IndexError")
  ELSE [m EXCEPT !.b = SetB(m.b, a, v)]

\* mutant: the byte is assigned, not OR-ed
OrIn_assign(m, a, v) == Put(m, a, v)

\* data[a] |= v
OrIn(m, a, v) ==
  IF m.err # "ok" THEN m
  ELSE IF a < 0 \/ a >= m.len THEN Raise(m, "IndexError")
  ELSE [m EXCEPT !.b = SetB(m.b, a, BitOr(Rd(m, a), v))]

\* data[lo:hi] = r : the slice is clamped to the buffer, and the buffer
\* changes length when r is not as long as the slice it replaces
SliceAssign(m, lo, hi, r) ==
  IF m.err # "ok" THEN m
  ELSE IF r.err # "ok" THEN Raise(m, r.err)
  ELSE
    LET l == Min(lo, m.len)
        h == Max(l, Min(hi, m.len))
        shift == r.len - (h - l)
        low == {a \in DOMAIN m.b : a < l}
        mid == {l + a : a \in DOMAIN r.b}
        high == {a + shift : a \in {x \in DOMAIN m.b : x >= h}}
    IN [len |-> m.len + shift,
        b |-> [a \in low \cup mid \cup high |->
                 IF a < l THEN m.b[a]
                 ELSE IF a < l + r.len THEN r.b[a - l]
                 ELSE m.b[a - shift]],
        err |-> "ok"]

\* v fits w bytes; the integers of the model are below 2^31, so that a
\* width of four bytes or more holds every non-negative one
Fits(v, w) == v >= 0 /\ (w >= 4 \/ v < Pow256(w))

\* v.to_bytes(length = w, byteorder = 'little')
ToBytesLE(v, w) ==
  IF ~Fits(v, w) THEN Raise(Zeros(w), "OverflowError")
  ELSE [len |-> w,
        b |-> [i \in {j \in 0 .. w - 1 : (v \div Pow256(j)) % 256 # 0} |->
                 (v \div Pow256(i)) % 256],
        err |-> "ok"]

RECURSIVE FromBytesLE(_, _, _)
\* int.from_bytes(data[lo : lo + w], byteorder = 'little')
FromBytesLE(m, lo, w) ==
  IF w = 0 \/ lo >= m.len THEN 0
  ELSE Rd(m, lo) + 256 * FromBytesLE(m, lo + 1, w - 1)

\* data[lo:hi], a bytes value, as the sequence of its bytes
Slice(m, lo, hi) ==
  LET l == Min(lo, m.len)
      h == Max(l, Min(hi, m.len))
  IN [i \in 1 .. h - l |-> Rd(m, l + i - 1)]

\* s.encode('ascii') / b.decode('ascii') succeed on codes below 128 only
IsAscii(s) == \A i \in 1 .. Len(s) : s[i] < 128

\* s.rstrip("\x00")
RStripNul(s) ==
  LET keep == {i \in 1 .. Len(s) : s[i] # 0}
      n == IF keep = {} THEN 0 ELSE CHOOSE i \in keep : \A j \in keep : j <= i
  IN SubSeq(s, 1, n)

\* ------------------------------------------------------- field schemas
\* One field definition: [kind, offset, width or mask, enum, transform pair]
Fld(n, k, o, a, e, t) ==
  [name |-> n, kind |-> k, off |-> o, arg |-> a, enum |-> e, tf |-> t]

dev_info ==
  <<
    Fld("Factory Number", "String", 0, 16, <<>>, "none"),
    Fld("Serial Number", "String", 16, 16, <<>>, "none"),
    Fld("Model Number", "String", 32, 16, <<>>, "none"),
    Fld("FW Version", "String", 48, 31, <<>>, "none"),
    Fld("Frequency range", "String", 80, 16, <<>>, "none"),
    Fld("Update date", "String", 96, 16, <<>>, "none"),
    Fld("Firmware ID", "String", 112, 16, <<>>, "none")
  >>

basic_parameters ==
  <<
    Fld("Radio name", "String", 128, 10, <<>>, "none"),
    Fld("DMR ID", "Number", 144, 3, <<>>, "none"),
    Fld("Language", "Bitmask", 149, 16, <<<<0, "Chinese">>, <<16, "English">>>>, "none"),
    Fld("TimeoutTimer", "Number", 4943, 1, <<>>, "none"),
    Fld("Busy channel lockout", "Bitmask", 166, 128, <<<<0, "Off">>, <<128, "On">>>>, "none"),
    Fld("VOX", "Bitmask", 166, 64, <<<<0, "Off">>, <<64, "On">>>>, "none"),
    Fld("VOX sensitivity", "MaskNum", 166, 15, <<>>, "plus1"),
    Fld("Scan mode", "Bitmask", 4989, 3, <<<<0, "CO">>, <<1, "TO">>, <<2, "SE">>>>, "none"),
    Fld("End tone types", "Bitmask", 4993, 3, <<<<0, "55Hz">>, <<1, "120'">>, <<2, "180">>, <<3, "240">>>>, "none"),
    Fld("Squelch A level", "MaskNum", 147, 15, <<>>, "none"),
    Fld("Squelch B level", "MaskNum", 147, 240, <<>>, "shr4"),
    Fld("Backlight", "Bitmask", 149, 40, <<<<0, "Off">>, <<8, "On">>, <<32, "Auto">>>>, "none"),
    Fld("Keylock", "Bitmask", 149, 68, <<<<0, "Off">>, <<4, "Auto">>, <<64, "Manual">>, <<68, "Manual & Auto">>>>, "none"),
    Fld("Roaming", "Bitmask", 4987, 1, <<<<0, "Off">>, <<1, "On">>>>, "none"),
    Fld("Roaming mode", "Bitmask", 4981, 3, <<<<0, "Auto">>, <<1, "Manual">>, <<2, "Strong RSSI Priority">>>>, "none"),
    Fld("RSSI set", "MaskNum", 4982, 255, <<>>, "rssi"),
    Fld("Connect check timer", "MaskNum", 4983, 255, <<>>, "none"),
    Fld("Repeater check timer", "MaskNum", 4984, 255, <<>>, "none"),
    Fld("Connect timer", "MaskNum", 4985, 9, <<>>, "plus1"),
    Fld("Record set", "Bitmask", 4992, 3, <<<<0, "None">>, <<1, "TX">>, <<2, "RX">>, <<3, "TX/RX">>>>, "none")
  >>

common_menu_parameters ==
  <<
    Fld("Contact list", "Bitmask", 174, 1, <<<<0, "Off">>, <<1, "On">>>>, "none"),
    Fld("New contact", "Bitmask", 174, 2, <<<<0, "Off">>, <<2, "On">>>>, "none"),
    Fld("Manual dial", "Bitmask", 174, 4, <<<<0, "Off">>, <<4, "On">>>>, "none"),
    Fld("Ham contacts", "Bitmask", 174, 8, <<<<0, "Off">>, <<8, "On">>>>, "none"),
    Fld("Ham groups", "Bitmask", 174, 16, <<<<0, "Off">>, <<16, "On">>>>, "none"),
    Fld("Radio check", "Bitmask", 186, 1, <<<<0, "Off">>, <<1, "On">>>>, "none"),
    Fld("Call alert", "Bitmask", 186, 2, <<<<0, "Off">>, <<2, "On">>>>, "none"),
    Fld("Radio monitor", "Bitmask", 186, 4, <<<<0, "Off">>, <<4, "On">>>>, "none"),
    Fld("Radio disable", "Bitmask", 186, 8, <<<<0, "Off">>, <<8, "On">>>>, "none"),
    Fld("Radio enable", "Bitmask", 186, 16, <<<<0, "Off">>, <<16, "On">>>>, "none"),
    Fld("SMS write", "Bitmask", 175, 1, <<<<0, "Off">>, <<1, "On">>>>, "none"),
    Fld("SMS quick msg", "Bitmask", 175, 2, <<<<0, "Off">>, <<2, "On">>>>, "none"),
    Fld("SMS inbox", "Bitmask", 175, 4, <<<<0, "Off">>, <<4, "On">>>>, "none"),
    Fld("SMS outbox", "Bitmask", 175, 8, <<<<0, "Off">>, <<8, "On">>>>, "none"),
    Fld("SMS drafts", "Bitmask", 175, 16, <<<<0, "Off">>, <<16, "On">>>>, "none"),
    Fld("Call log outgoing", "Bitmask", 176, 1, <<<<0, "Off">>, <<1, "On">>>>, "none"),
    Fld("Call log received", "Bitmask", 176, 2, <<<<0, "Off">>, <<2, "On">>>>, "none"),
    Fld("Call log missed", "Bitmask", 176, 4, <<<<0, "Off">>, <<4, "On">>>>, "none"),
    Fld("Scan on/off", "Bitmask", 177, 1, <<<<0, "Off">>, <<1, "On">>>>, "none"),
    Fld("Scan list", "Bitmask", 177, 2, <<<<0, "Off">>, <<2, "On">>>>, "none"),
    Fld("Scan mode", "Bitmask", 177, 4, <<<<0, "Off">>, <<4, "On">>>>, "none"),
    Fld("Roam on/off", "Bitmask", 177, 8, <<<<0, "Off">>, <<8, "On">>>>, "none"),
    Fld("Scan running on/off", "Bitmask", 16, 16, <<<<0, "Off">>, <<16, "On">>>>, "none"),
    Fld("Zone list on/off", "Bitmask", 178, 1, <<<<0, "Off">>, <<1, "On">>>>, "none"),
    Fld("Language", "Bitmask", 179, 1, <<<<0, "Off">>, <<1, "On">>>>, "none"),
    Fld("Keylock", "Bitmask", 179, 2, <<<<0, "Off">>, <<2, "On">>>>, "none"),
    Fld("Backlight", "Bitmask", 179, 4, <<<<0, "Off">>, <<4, "On">>>>, "none"),
    Fld("LEDs", "Bitmask", 179, 8, <<<<0, "Off">>, <<8, "On">>>>, "none"),
    Fld("Display mode", "Bitmask", 179, 16, <<<<0, "Off">>, <<16, "On">>>>, "none"),
    Fld("Vox", "Bitmask", 179, 32, <<<<0, "Off">>, <<32, "On">>>>, "none"),
    Fld("Channel sw", "Bitmask", 179, 64, <<<<0, "Off">>, <<64, "On">>>>, "none"),
    Fld("Factory reset", "Bitmask", 179, 128, <<<<0, "Off">>, <<128, "On">>>>, "none"),
    Fld("Local repeat", "Bitmask", 188, 1, <<<<0, "Off">>, <<1, "On">>>>, "none"),
    Fld("ToT", "Bitmask", 181, 1, <<<<0, "Off">>, <<1, "On">>>>, "none"),
    Fld("Power set", "Bitmask", 181, 2, <<<<0, "Off">>, <<2, "On">>>>, "none"),
    Fld("Repeat set", "Bitmask", 181, 4, <<<<0, "Off">>, <<4, "On">>>>, "none"),
    Fld("Sleep mode", "Bitmask", 181, 8, <<<<0, "Off">>, <<8, "On">>>>, "none"),
    Fld("Squelch level", "Bitmask", 181, 16, <<<<0, "Off">>, <<16, "On">>>>, "none"),
    Fld("Wide/Narrow band", "Bitmask", 181, 32, <<<<0, "Off">>, <<32, "On">>>>, "none"),
    Fld("Busy channel lockout", "Bitmask", 181, 64, <<<<0, "Off">>, <<64, "On">>>>, "none"),
    Fld("Signalling", "Bitmask", 181, 128, <<<<0, "Off">>, <<128, "On">>>>, "none"),
    Fld("End tone types", "Bitmask", 189, 1, <<<<0, "Off">>, <<1, "On">>>>, "none"),
    Fld("Enc level", "Bitmask", 180, 1, <<<<0, "Off">>, <<1, "On">>>>, "none"),
    Fld("Profiles", "Bitmask", 182, 1, <<<<0, "Off">>, <<1, "On">>>>, "none"),
    Fld("Keytone", "Bitmask", 182, 2, <<<<0, "Off">>, <<2, "On">>>>, "none"),
    Fld("Power tone", "Bitmask", 182, 4, <<<<0, "Off">>, <<4, "On">>>>, "none"),
    Fld("Msg tone", "Bitmask", 182, 8, <<<<0, "Off">>, <<8, "On">>>>, "none"),
    Fld("Private call tone", "Bitmask", 182, 16, <<<<0, "Off">>, <<16, "On">>>>, "none"),
    Fld("Group call tone", "Bitmask", 182, 32, <<<<0, "Off">>, <<32, "On">>>>, "none"),
    Fld("Call tone", "Bitmask", 182, 64, <<<<0, "Off">>, <<64, "On">>>>, "none"),
    Fld("Power on tone", "Bitmask", 182, 128, <<<<0, "Off">>, <<128, "On">>>>, "none"),
    Fld("GPS", "Bitmask", 183, 1, <<<<0, "Off">>, <<1, "On">>>>, "none"),
    Fld("Torch", "Bitmask", 183, 2, <<<<0, "Off">>, <<2, "On">>>>, "none"),
    Fld("FM radio", "Bitmask", 183, 4, <<<<0, "Off">>, <<4, "On">>>>, "none"),
    Fld("Time", "Bitmask", 183, 8, <<<<0, "Off">>, <<8, "On">>>>, "none"),
    Fld("DTMF", "Bitmask", 183, 16, <<<<0, "Off">>, <<16, "On">>>>, "none"),
    Fld("Speaker handmic", "Bitmask", 183, 32, <<<<0, "Off">>, <<32, "On">>>>, "none"),
    Fld("APRS", "Bitmask", 183, 64, <<<<0, "Off">>, <<64, "On">>>>, "none"),
    Fld("Record set", "Bitmask", 184, 1, <<<<0, "Off">>, <<1, "On">>>>, "none"),
    Fld("Record list", "Bitmask", 184, 2, <<<<0, "Off">>, <<2, "On">>>>, "none"),
    Fld("Record clear", "Bitmask", 184, 4, <<<<0, "Off">>, <<4, "On">>>>, "none"),
    Fld("Record space", "Bitmask", 184, 8, <<<<0, "Off">>, <<8, "On">>>>, "none"),
    Fld("Radio ID", "Bitmask", 185, 1, <<<<0, "Off">>, <<1, "On">>>>, "none"),
    Fld("RX group list", "Bitmask", 185, 2, <<<<0, "Off">>, <<2, "On">>>>, "none"),
    Fld("Channel contact", "Bitmask", 185, 4, <<<<0, "Off">>, <<4, "On">>>>, "none"),
    Fld("Version", "Bitmask", 185, 8, <<<<0, "Off">>, <<8, "On">>>>, "none"),
    Fld("VFO", "Bitmask", 187, 1, <<<<0, "Off">>, <<1, "On">>>>, "none")
  >>

prompt_tone_parameters ==
  <<
    Fld("Profiles", "Bitmask", 167, 1, <<<<0, "Standard">>, <<1, "Silent">>>>, "none"),
    Fld("SMS Prompt", "MaskNum", 168, 15, <<>>, "none"),
    Fld("Private call Tone", "MaskNum", 169, 5, <<>>, "none"),
    Fld("Group call Tone", "MaskNum", 170, 5, <<>>, "none"),
    Fld("Key tone", "Bitmask", 171, 128, <<<<0, "Off">>, <<128, "On">>>>, "none"),
    Fld("Key tone vol", "MaskNum", 171, 15, <<>>, "none"),
    Fld("Low bat alert tone", "Bitmask", 172, 128, <<<<0, "Off">>, <<128, "On">>>>, "none"),
    Fld("Low bat alert vol", "MaskNum", 172, 15, <<>>, "none"),
    Fld("Call hang up", "Bitmask", 4824, 1, <<<<0, "Silent">>, <<1, "Prompt Tone">>>>, "none"),
    Fld("Boot ringtone", "Bitmask", 149, 2, <<<<0, "Off">>, <<2, "On">>>>, "none"),
    Fld("Roaming restart prompt", "MaskNum", 4995, 15, <<>>, "none"),
    Fld("Repeater selected prompt", "MaskNum", 4995, 15, <<>>, "none")
  >>

indicator_parameters ==
  <<
    Fld("All", "Bitmask", 173, 16, <<<<16, "On">>, <<0, "Off">>>>, "none"),
    Fld("Tx", "Bitmask", 173, 8, <<<<8, "On">>, <<0, "Off">>>>, "none"),
    Fld("Rx", "Bitmask", 173, 4, <<<<4, "On">>, <<0, "Off">>>>, "none"),
    Fld("Scanning", "Bitmask", 173, 2, <<<<2, "On">>, <<0, "Off">>>>, "none"),
    Fld("Low battery", "Bitmask", 173, 1, <<<<1, "On">>, <<0, "Off">>>>, "none")
  >>

button_preset_parameters ==
  <<
    Fld("LongPressDuration", "Bitmask", 193, 255, <<<<0, "0.5">>, <<1, "1.0">>, <<2, "1.5">>, <<3, "2.0">>, <<4, "2.5">>, <<5, "3.0">>, <<6, "3.5">>, <<7, "4.0">>, <<8, "4.5">>, <<9, "5.0">>>>, "none"),
    Fld("P1 LongPress", "Bitmask", 194, 255, Button_IDs, "none"),
    Fld("P1 ShortPress", "Bitmask", 195, 255, Button_IDs, "none"),
    Fld("P2 LongPress", "Bitmask", 196, 255, Button_IDs, "none"),
    Fld("P2 ShortPress", "Bitmask", 197, 255, Button_IDs, "none"),
    Fld("P3 LongPress", "Bitmask", 198, 255, Button_IDs, "none"),
    Fld("P3 ShortPress", "Bitmask", 199, 255, Button_IDs, "none"),
    Fld("P4 LongPress", "Bitmask", 200, 255, Button_IDs, "none"),
    Fld("P4 ShortPress", "Bitmask", 201, 255, Button_IDs, "none"),
    Fld("P5 LongPress", "Bitmask", 202, 255, Button_IDs, "none"),
    Fld("P5 ShortPress", "Bitmask", 203, 255, Button_IDs, "none"),
    Fld("P6 LongPress", "Bitmask", 204, 255, Button_IDs, "none"),
    Fld("P6 ShortPress", "Bitmask", 205, 255, Button_IDs, "none"),
    Fld("P7 LongPress", "Bitmask", 4997, 255, Button_IDs, "none"),
    Fld("P7 ShortPress", "Bitmask", 4998, 255, Button_IDs, "none")
  >>

mic_gain_parameters ==
  <<
    Fld("Mic gain 1", "Bitmask", 164, 128, <<<<128, "On">>, <<0, "Off">>>>, "none"),
    Fld("Mic gain 1 setting", "MaskNum", 164, 7, <<>>, "mul4"),
    Fld("Mic gain 2", "Bitmask", 165, 128, <<<<128, "On">>, <<0, "Off">>>>, "none"),
    Fld("Mic gain 2 setting", "MaskNum", 165, 31, <<>>, "none")
  >>

dmr_parameters ==
  <<
    Fld("Remote monitor duration", "MaskNum", 4012, 255, <<>>, "rm10"),
    Fld("Remote monitor decode", "Bitmask", 4013, 128, <<<<0, "Off">>, <<128, "On">>>>, "none"),
    Fld("Remote kill decode", "Bitmask", 4013, 64, <<<<0, "Off">>, <<64, "On">>>>, "none"),
    Fld("Radio detection decode", "Bitmask", 4013, 32, <<<<0, "Off">>, <<32, "On">>>>, "none"),
    Fld("Radio revive decode", "Bitmask", 4013, 16, <<<<0, "Off">>, <<16, "On">>>>, "none"),
    Fld("Call alert", "Bitmask", 4013, 8, <<<<0, "Off">>, <<8, "On">>>>, "none"),
    Fld("Group call hang time", "MaskNum", 4944, 15, <<>>, "mul500"),
    Fld("Private call hang time", "MaskNum", 4945, 15, <<>>, "mul500"),
    Fld("Import delay", "MaskNum", 4976, 255, <<>>, "mul10f"),
    Fld("DTMF duration (on-time)", "MaskNum", 4977, 255, <<>>, "mul10"),
    Fld("DTMF duration (off-time)", "MaskNum", 4978, 255, <<>>, "mul10"),
    Fld("DTMF volume (local)", "MaskNum", 4979, 15, <<>>, "none"),
    Fld("DTMF On/off", "Bitmask", 4963, 1, <<<<0, "Off">>, <<1, "On">>>>, "none"),
    Fld("GPS On/off", "Bitmask", 4986, 1, <<<<0, "Off">>, <<1, "On">>>>, "none"),
    Fld("GPS Interval", "MaskNum", 4947, 255, <<>>, "none"),
    Fld("GPS Channel group ID", "Number", 4948, 2, <<>>, "none"),
    Fld("GPS Channel channel ID", "Number", 4950, 2, <<>>, "none")
  >>

aprs_parameters ==
  <<
    Fld("Manual TX interval", "Number", 3723, 1, <<>>, "none"),
    Fld("Auto TX interval", "MaskNum", 3724, 255, <<>>, "mul30"),
    Fld("Beacon", "Bitmask", 3726, 1, <<<<0, "FIXED_LOCATION">>, <<1, "GPS_LOCATION">>>>, "none"),
    Fld("LatNS", "Bitmask", 3727, 1, <<<<0, "North">>, <<1, "South">>>>, "none"),
    Fld("Lat Degrees", "Number", 3729, 4, <<>>, "none"),
    Fld("LongEW", "Bitmask", 3728, 1, <<<<0, "East">>, <<1, "West">>>>, "none"),
    Fld("Long Degrees", "Number", 3733, 4, <<>>, "none"),
    Fld("AX25 TX Freq", "Number", 3737, 4, <<>>, "none"),
    Fld("AX25 TX Power", "Bitmask", 3745, 1, <<<<0, "LOW">>, <<1, "HIGH">>>>, "none"),
    Fld("AX25 QT/DQT", "Number", 3741, 2, <<>>, "none"),
    Fld("AX25 APRS Tone", "Bitmask", 3746, 1, <<<<0, "OFF">>, <<1, "ON">>>>, "none"),
    Fld("AX25 TX Delay", "MaskNum", 3743, 255, <<>>, "mul20"),
    Fld("AX25 Prewave time", "MaskNum", 3744, 255, <<>>, "mul10"),
    Fld("AX25 Your Callsign", "String", 3755, 6, <<>>, "none"),
    Fld("AX25 Your SSID", "Number", 3748, 1, <<>>, "none"),
    Fld("AX25 Dest Callsign", "String", 3749, 6, <<>>, "none"),
    Fld("AX25 Dest SSID", "Number", 3747, 1, <<>>, "none"),
    Fld("AX25 APRS Symbol Table", "Number", 3761, 1, <<>>, "none"),
    Fld("AX25 APRS Map Icon", "Number", 3762, 1, <<>>, "none"),
    Fld("AX25 APRS Signal Path", "String", 3763, 20, <<>>, "none"),
    Fld("AX25 Your Sending Text", "String", 3783, 61, <<>>, "none")
  >>

aprs_dmr_record_parameters ==
  <<
    Fld("Zone ID", "Number", 0, 2, <<>>, "none"),
    Fld("Channel ID", "Number", 2, 2, <<>>, "none"),
    Fld("Call Type", "Bitmask", 7, 4, <<<<0, "PRIVATE">>, <<4, "GROUP">>>>, "none"),
    Fld("PTT", "Bitmask", 7, 8, <<<<0, "OFF">>, <<8, "ON">>>>, "none"),
    Fld("Report Slot", "Bitmask", 7, 3, <<<<0, "CURRENT">>, <<1, "TS1">>, <<2, "TS2">>>>, "none"),
    Fld("APRS TG", "Number", 4, 3, <<>>, "none")
  >>

contact_parameters ==
  <<
    Fld("ID", "Number", 0, 2, <<>>, "none"),
    Fld("Name", "String", 3, 10, <<>>, "none"),
    Fld("DMR ID", "Number", 13, 3, <<>>, "none"),
    Fld("Type", "Bitmask", 2, 255, <<<<4, "Group">>, <<5, "Private">>, <<6, "All Call">>, <<7, "No-Address Call">>, <<8, "RawData">>, <<9, "Define Data">>, <<10, "SPDATA">>>>, "none")
  >>

scan_list_info ==
  <<
    Fld("Name", "String", 0, 10, <<>>, "none"),
    Fld("Talkback", "Bitmask", 11, 32, <<<<0, "Off">>, <<32, "On">>>>, "none"),
    Fld("Scan TX Mode", "Bitmask", 11, 15, <<<<0, "Current Channel">>, <<4, "Last Operated Channel">>, <<8, "Appointed Channel">>>>, "none"),
    Fld("Appointed channel group ID", "Number", 12, 2, <<>>, "none"),
    Fld("Appointed channel channel ID", "Number", 14, 2, <<>>, "none")
  >>

rx_group_info ==
  <<
    Fld("Name", "String", 0, 10, <<>>, "none")
  >>

zone_info ==
  <<
    Fld("ID", "Number", 0, 2, <<>>, "none"),
    Fld("Name", "String", 3, 10, <<>>, "none")
  >>

channel_info ==
  <<
    Fld("ID", "Number", 0, 2, <<>>, "none"),
    Fld("Type", "Bitmask", 20, 192, <<<<0, "ANALOG">>, <<64, "DIGITAL">>, <<128, "D_A_TX_A">>, <<192, "D_A_TX_D">>>>, "none"),
    Fld("Name", "String", 2, 10, <<>>, "none"),
    Fld("Rx Freq", "Number", 12, 4, <<>>, "none"),
    Fld("Tx Freq", "Number", 16, 4, <<>>, "none"),
    Fld("Tx Power", "Bitmask", 20, 32, <<<<0, "LOW">>, <<32, "HIGH">>>>, "none"),
    Fld("Rx only", "Bitmask", 25, 16, <<<<0, "OFF">>, <<16, "ON">>>>, "none"),
    Fld("Alarm", "Bitmask", 20, 8, <<<<0, "OFF">>, <<8, "ON">>>>, "none"),
    Fld("Prompt", "Bitmask", 20, 8, <<<<0, "OFF">>, <<8, "ON">>>>, "none"),
    Fld("PCT", "Bitmask", 20, 2, <<<<0, "PATCS">>, <<2, "OACSU">>>>, "none"),
    Fld("TS Rx", "Bitmask", 20, 1, <<<<0, "TS1">>, <<1, "TS2">>>>, "none"),
    Fld("TS Tx", "Bitmask", 29, 2, <<<<0, "TS1">>, <<2, "TS2">>>>, "none"),
    Fld("RX CC", "MaskNum", 21, 15, <<>>, "none"),
    Fld("TX CC", "MaskNum", 29, 240, <<>>, "shr4"),
    Fld("MSG Type", "Bitmask", 21, 16, <<<<0, "UNCONFIRMED">>, <<16, "CONFIRMED">>>>, "none"),
    Fld("TX Policy", "Bitmask", 21, 192, <<<<0, "IMPOLITE">>, <<64, "POLITE_TO_CC">>, <<96, "POLITE_TO_ALL">>>>, "none"),
    Fld("Group call list", "Number", 23, 1, <<>>, "none"),
    Fld("Scan List ID", "Number", 24, 1, <<>>, "none"),
    Fld("Default Contact ID", "Number", 30, 1, <<>>, "none"),
    Fld("EAS", "Bitmask", 25, 15, <<<<0, "OFF">>, <<1, "A1">>, <<2, "A2">>, <<3, "A3">>, <<4, "A4">>>>, "none"),
    Fld("Bandwidth", "Bitmask", 20, 16, <<<<16, "25KHz">>, <<0, "12.5KHz">>>>, "none"),
    Fld("Tone Type Tx", "Bitmask", 26, 12, <<<<0, "OFF">>, <<4, "CTCSS">>, <<8, "DCS">>, <<12, "DCS Invert">>>>, "none"),
    Fld("Tone Tx", "Number", 28, 1, <<>>, "none"),
    Fld("Tone Type Rx", "Bitmask", 26, 3, <<<<0, "OFF">>, <<1, "CTCSS">>, <<2, "DCS">>, <<3, "DCS Invert">>>>, "none"),
    Fld("Tone Rx", "Number", 27, 1, <<>>, "none"),
    Fld("APRS Channel", "MaskNum", 31, 240, <<>>, "shr4")
  >>

tson_info ==
  <<
    Fld("TS Rx ON", "Bitmask", 29, 1, <<<<0, "ON">>, <<1, "OFF">>>>, "none"),
    Fld("TS Tx ON", "Bitmask", 29, 4, <<<<0, "ON">>, <<4, "OFF">>>>, "none")
  >>

\* ------------------------------------------------------------- Parser
\* The decode lambda of a MaskNum field (definition[3])
DecodeTransform(tf, x) ==
  CASE tf = "none" -> x
    [] tf = "plus1" -> x + 1
    [] tf = "shr4" -> x \div 16
    [] tf = "rssi" -> -90 - x
    [] tf = "mul4" -> x * 4
    [] tf = "rm10" -> 10 + x * 10
    [] tf = "mul500" -> x * 500
    [] tf = "mul10f" -> x * 10
    [] tf = "mul10" -> x * 10
    [] tf = "mul30" -> x * 30
    [] tf = "mul20" -> x * 20

\* mutant: the encode lambda of "Remote monitor duration" without its -1
EncodeTransform_unshifted(tf, v) ==
  CASE tf = "none" -> v
    [] tf = "plus1" -> v - 1
    [] tf = "shr4" -> v * 16
    [] tf = "rssi" -> -1 * v - 90
    [] tf = "mul4" -> TruncDiv(v, 4)
    [] tf = "rm10" -> TruncDiv(v, 10)
    [] tf = "mul500" -> TruncDiv(v, 500)
    [] tf = "mul10f" -> TruncDiv(v, 10)
    [] tf = "mul10" -> TruncDiv(v, 10)
    [] tf = "mul30" -> TruncDiv(v, 30)
    [] tf = "mul20" -> TruncDiv(v, 20)

\* int() of the encode lambda of a MaskNum field (definition[4])
EncodeTransform(tf, v) ==
  CASE tf = "none" -> v
    [] tf = "plus1" -> v - 1
    [] tf = "shr4" -> v * 16
    [] tf = "rssi" -> -1 * v - 90
    [] tf = "mul4" -> TruncDiv(v, 4)
    [] tf = "rm10" -> TruncDiv(v - 10, 10)
    [] tf = "mul500" -> TruncDiv(v, 500)
    [] tf = "mul10f" -> TruncDiv(v, 10)
    [] tf = "mul10" -> TruncDiv(v, 10)
    [] tf = "mul30" -> TruncDiv(v, 30)
    [] tf = "mul20" -> TruncDiv(v, 20)

\* A window data[lo:hi] of a bytes value, read in place
Window(m, lo, hi) ==
  LET l == Min(lo, m.len)
      h == Max(l, Min(hi, m.len))
  IN [m |-> m, lo |-> l, len |-> h - l]

Whole(m) == [m |-> m, lo |-> 0, len |-> m.len]

WRd(w, a) == Rd(w.m, w.lo + a)

WSlice(w, lo, hi) ==
  LET l == Min(lo, w.len)
      h == Max(l, Min(hi, w.len))
  IN [i \in 1 .. h - l |-> WRd(w, l + i - 1)]

RECURSIVE WFromBytesLE(_, _, _)
WFromBytesLE(w, lo, n) ==
  IF n = 0 \/ lo >= w.len THEN 0
  ELSE WRd(w, lo) + 256 * WFromBytesLE(w, lo + 1, n - 1)

EnumHas(enum, b) == \E i \in 1 .. Len(enum) : enum[i][1] = b

EnumLabel(enum, b) == enum[CHOOSE i \in 1 .. Len(enum) : enum[i][1] = b][2]

\* mutant: a masked byte that is no key decodes as the first label of the table
DecodeField_default(d, w) ==
  CASE d.kind = "Bitmask" ->
         LET b == BitAnd(WRd(w, d.off), d.arg)
         IN IF EnumHas(d.enum, b) THEN EnumLabel(d.enum, b) ELSE d.enum[1][2]
    [] d.kind = "String" -> RStripNul(WSlice(w, d.off, d.off + d.arg))
    [] d.kind = "Number" -> WFromBytesLE(w, d.off, d.arg)
    [] d.kind = "MaskNum" -> DecodeTransform(d.tf, BitAnd(WRd(w, d.off), d.arg))

\* Parser.fromBytes, one field: the value stored under the field's key
DecodeField(d, w) ==
  CASE d.kind = "Bitmask" ->
         LET b == BitAnd(WRd(w, d.off), d.arg)
         IN IF EnumHas(d.enum, b) THEN EnumLabel(d.enum, b) ELSE ""
    [] d.kind = "String" -> RStripNul(WSlice(w, d.off, d.off + d.arg))
    [] d.kind = "Number" -> WFromBytesLE(w, d.off, d.arg)
    [] d.kind = "MaskNum" -> DecodeTransform(d.tf, BitAnd(WRd(w, d.off), d.arg))

\* Parser.fromBytes, one field: the exception it raises, "ok" when none
DecodeFieldErr(d, w) ==
  CASE d.kind \in {"Bitmask", "MaskNum"} ->
         IF d.off >= w.len THEN "IndexError" ELSE "ok"
    [] d.kind = "String" ->
         IF IsAscii(WSlice(w, d.off, d.off + d.arg)) THEN "ok" ELSE "UnicodeDecodeError"
    [] d.kind = "Number" -> "ok"

FieldNames(definitions) == {definitions[i].name : i \in 1 .. Len(definitions)}

FieldNamed(definitions, key) ==
  definitions[CHOOSE i \in 1 .. Len(definitions) : definitions[i].name = key]

\* Parser.fromBytes(definitions, bytes): the decoded mapping
fromBytes(definitions, w) ==
  [key \in FieldNames(definitions) |-> DecodeField(FieldNamed(definitions, key), w)]

\* Parser.fromBytes(definitions, bytes) raises
fromBytesErr(definitions, w) ==
  IF \A i \in 1 .. Len(definitions) : DecodeFieldErr(definitions[i], w) = "ok"
  THEN "ok"
  ELSE DecodeFieldErr(definitions[CHOOSE i \in 1 .. Len(definitions) :
                                    /\ DecodeFieldErr(definitions[i], w) # "ok"
                                    /\ \A j \in 1 .. i - 1 :
                                         DecodeFieldErr(definitions[j], w) = "ok"], w)

\* for k, v in definition[3].items(): if v == item[key]: data[off] |= k
OrKeys(data, off, enum, label) ==
  FoldRange(LAMBDA m, i : IF enum[i][2] = label THEN OrIn(m, off, enum[i][1]) ELSE m,
            data, 1, Len(enum))

\* for p in range(len(item[key])): data[off + p] = encoded_str[p]
PutChars(data, off, s) ==
  FoldRange(LAMBDA m, p : Put(m, off + p, s[p + 1]), data, 0, Len(s) - 1)

\* Parser.toBytes, one field
EncodeField(data, d, v) ==
  CASE d.kind = "Bitmask" -> OrKeys(data, d.off, d.enum, v)
    [] d.kind = "String" ->
         IF IsAscii(v) THEN PutChars(data, d.off, v)
         ELSE Raise(data, "UnicodeEncodeError")
    [] d.kind = "Number" ->
         SliceAssign(data, d.off, d.off + d.arg, ToBytesLE(v, d.arg))
    [] d.kind = "MaskNum" ->
         OrIn(data, d.off, MaskInt(EncodeTransform(d.tf, v), d.arg))

\* Parser.toBytes(data, definitions, item)
toBytes(data, definitions, item) ==
  FoldRange(LAMBDA m, i : EncodeField(m, definitions[i], item[definitions[i].name]),
            data, 1, Len(definitions))

\* --------------------------------------------------------- str helpers
RECURSIVE Digits(_)
\* str(n) of a natural n
Digits(n) == IF n < 10 THEN <<48 + n>> ELSE Digits(n \div 10) \o <<48 + (n % 10)>>

RECURSIVE ZFill(_, _)
\* s.zfill(w) of a digit string
ZFill(s, w) == IF Len(s) >= w THEN s ELSE ZFill(<<48>> \o s, w)

\* str(f) of a float held in tenths
FloatStr(t) == Digits(t \div 10) \o <<46>> \o Digits(t % 10)

\* s.replace(c, '')
Without(s, c) == SelectSeq(s, LAMBDA x : x # c)

IsDigits(s) == Len(s) > 0 /\ \A i \in 1 .. Len(s) : s[i] \in 48 .. 57

RECURSIVE IntOf(_)
\* int(s) of a digit string
IntOf(s) ==
  IF Len(s) = 0 THEN 0
  ELSE 10 * IntOf(SubSeq(s, 1, Len(s) - 1)) + (s[Len(s)] - 48)

EndsWith(s, c) == Len(s) > 0 /\ s[Len(s)] = c

StrOff == <<79, 102, 102>>

\* list.index(x), 0-based; -1 stands for the ValueError of an absent x
IndexOf(list, x) ==
  IF \E i \in 1 .. Len(list) : list[i] = x
  THEN (CHOOSE i \in 1 .. Len(list) :
          list[i] = x /\ \A j \in 1 .. i - 1 : list[j] # x) - 1
  ELSE -1

\* list[i] with Python's index rules; -1 stands for the IndexError
ListAt(list, i) ==
  IF i >= 0 /\ i < Len(list) THEN list[i + 1]
  ELSE IF i < 0 /\ -i <= Len(list) THEN list[Len(list) + i + 1]
  ELSE -1

RECURSIVE SumLens(_, _)
\* the number of channels of the first k zones
SumLens(zones, k) ==
  IF k = 0 THEN 0 ELSE SumLens(zones, k - 1) + Len(zones[k]["Channels"])

\* ------------------------------------------------------ layout planner
\* mutant: the parity fix-up pads to an even number of 1024-byte units
contact_block_size_decode_even(num_contacts) ==
  LET raw == num_contacts * contact_record_size
      padded == IF raw % 1024 # 0 THEN raw + (1024 - (raw % 1024)) ELSE raw
  IN IF (padded \div 1024) % 2 = 1 THEN padded + 1024 ELSE padded

\* decompileCodeplug: contact_block_size of num_contacts
contact_block_size_decode(num_contacts) ==
  LET raw == num_contacts * contact_record_size
      padded == IF raw % 1024 # 0 THEN raw + (1024 - (raw % 1024)) ELSE raw
  IN IF (padded \div 1024) % 2 = 0 THEN padded + 1024 ELSE padded

\* decompileCodeplug: zone_start_address of num_contacts
zone_start_address_decode(num_contacts) ==
  LET z == contact_start_address + contact_block_size_decode(num_contacts)
  IN IF z % 1024 # 0 THEN z + (1024 - (z % 1024)) ELSE z

\* mutant: the block is padded to 1024 and the parity fix-up is left out
contact_block_size_encode_unfixed(num_contacts) ==
  LET raw == num_contacts * contact_record_size
  IN IF raw % 1024 # 0 THEN raw + (1024 - (raw % 1024)) ELSE raw

\* compileCodeplug: contact_block_size of num_contacts
contact_block_size_encode(num_contacts) ==
  LET raw == num_contacts * contact_record_size
      padded == IF raw % 1024 # 0 THEN raw + (1024 - (raw % 1024)) ELSE raw
  IN IF (padded \div 1024) % 2 = 0 THEN padded + 1024 ELSE padded

\* compileCodeplug: zone_start_address of num_contacts
zone_start_address_encode(num_contacts) ==
  contact_start_address + contact_block_size_encode(num_contacts)

\* mutant: the zone block is counted in zones, not in bytes
channel_start_address_encode_unscaled(num_contacts, num_zones) ==
  zone_start_address_encode(num_contacts) + num_zones

\* compileCodeplug: channel_start_address
channel_start_address_encode(num_contacts, num_zones) ==
  zone_start_address_encode(num_contacts) + 32 * num_zones

\* mutant: the size is left at the end of the last channel record
codeplug_size_encode_unrounded(num_contacts, num_zones, num_channels) ==
  channel_start_address_encode(num_contacts, num_zones) + num_channels * channel_record_size

\* compileCodeplug: codeplug_size
codeplug_size_encode(num_contacts, num_zones, num_channels) ==
  LET raw == channel_start_address_encode(num_contacts, num_zones)
               + num_channels * channel_record_size
  IN IF raw % 2048 # 0 THEN raw + (2048 - (raw % 2048)) ELSE raw

\* compileCodeplug, lines 732-769: the counts and the planned addresses
EncodePlan(codeplug) ==
  LET nc == Len(codeplug["Contacts"])
      nz == Len(codeplug["Zones"])
      nch == SumLens(codeplug["Zones"], nz)
  IN [num_contacts |-> nc, num_zones |-> nz, num_channels |-> nch,
      contact_block_size |-> contact_block_size_encode(nc),
      zone_start_address |-> zone_start_address_encode(nc),
      channel_start_address |-> channel_start_address_encode(nc, nz),
      codeplug_size |-> codeplug_size_encode(nc, nz, nch)]

\* decompileCodeplug, lines 519-542: the counts read and the planned addresses
DecodePlan(data) ==
  LET nch == FromBytesLE(data, channel_count_address, 2)
      nz == FromBytesLE(data, zone_count_address, 2)
      nc == FromBytesLE(data, contact_count_address, 2)
  IN [num_contacts |-> nc, num_zones |-> nz, num_channels |-> nch,
      contact_block_size |-> contact_block_size_decode(nc),
      zone_start_address |-> zone_start_address_decode(nc),
      channel_start_address |-> 0, codeplug_size |-> 0]

\* ----------------------------------------------------- compileCodeplug
\* mutant: the contact count and the channel count change places
WriteCounts_swapped(template, plan) ==
  LET t1 == SliceAssign(template, zone_count_address, zone_count_address + 2,
                        ToBytesLE(plan.num_zones, 2))
      t2 == SliceAssign(t1, contact_count_address, contact_count_address + 2,
                        ToBytesLE(plan.num_channels, 2))
  IN SliceAssign(t2, channel_count_address, channel_count_address + 2,
                 ToBytesLE(plan.num_contacts, 2))

\* lines 771-774: the three counters
WriteCounts(template, plan) ==
  LET t1 == SliceAssign(template, zone_count_address, zone_count_address + 2,
                        ToBytesLE(plan.num_zones, 2))
      t2 == SliceAssign(t1, contact_count_address, contact_count_address + 2,
                        ToBytesLE(plan.num_contacts, 2))
  IN SliceAssign(t2, channel_count_address, channel_count_address + 2,
                 ToBytesLE(plan.num_channels, 2))

\* lines 776-784: the singleton sections before APRS
WriteSingletons(template, codeplug) ==
  LET t1 == toBytes(template, dev_info, codeplug["Device info"])
      t2 == toBytes(t1, basic_parameters, codeplug["Basic parameters"])
      t3 == toBytes(t2, common_menu_parameters, codeplug["Common menu parameters"])
      t4 == toBytes(t3, prompt_tone_parameters, codeplug["Prompt Tone"])
      t5 == toBytes(t4, indicator_parameters, codeplug["Indicators"])
      t6 == toBytes(t5, button_preset_parameters, codeplug["Preset buttons"])
      t7 == toBytes(t6, mic_gain_parameters, codeplug["Mic gain"])
  IN toBytes(t7, dmr_parameters, codeplug["DMR Service"])

\* mutant: the normal codes are counted from the first value of their range
EncodeQT_from52(v) ==
  IF v = StrOff THEN 0
  ELSE IF EndsWith(v, 73) THEN
    LET s == Without(Without(v, 68), 73)
        i == IF IsDigits(s) THEN IndexOf(DCS_Codes, IntOf(s)) ELSE -1
    IN IF i < 0 THEN -1 ELSE i + 160
  ELSE IF EndsWith(v, 78) THEN
    LET s == Without(Without(v, 68), 78)
        i == IF IsDigits(s) THEN IndexOf(DCS_Codes, IntOf(s)) ELSE -1
    IN IF i < 0 THEN -1 ELSE i + 52
  ELSE -1

\* lines 789-796: the stored AX25 QT/DQT value of the document's string;
\* -1 stands for the ValueError of int() or of list.index()
EncodeQT(v) ==
  IF v = StrOff THEN 0
  ELSE IF EndsWith(v, 73) THEN
    LET s == Without(Without(v, 68), 73)
        i == IF IsDigits(s) THEN IndexOf(DCS_Codes, IntOf(s)) ELSE -1
    IN IF i < 0 THEN -1 ELSE i + 160
  ELSE IF EndsWith(v, 78) THEN
    LET s == Without(Without(v, 68), 78)
        i == IF IsDigits(s) THEN IndexOf(DCS_Codes, IntOf(s)) ELSE -1
    IN IF i < 0 THEN -1 ELSE i + 53
  ELSE -1   \* CTCSS_Tones.index(<a str>): no float of the list equals a str

\* lines 789-798: the APRS section
WriteAPRS(template, codeplug) ==
  LET qt == EncodeQT(codeplug["APRS"]["AX25 QT/DQT"])
  IN IF qt < 0 THEN Raise(template, "ValueError")
     ELSE toBytes(template, aprs_parameters,
                  [codeplug["APRS"] EXCEPT !["AX25 QT/DQT"] = qt])

\* lines 800-808: the APRS DMR channel records
WriteAPRSDMR(template, codeplug) ==
  FoldRange(LAMBDA t, count :
              SliceAssign(t, aprs_dmr_channel_start_address + 8 * count,
                          aprs_dmr_channel_start_address + 8 * (count + 1),
                          toBytes(Zeros(8), aprs_dmr_record_parameters,
                                  codeplug["APRS"]["DMR channels"][count + 1])),
            template, 0, Len(codeplug["APRS"]["DMR channels"]) - 1)

\* a bytes value as a buffer
BytesOf(s) ==
  [len |-> Len(s), b |-> [a \in {i - 1 : i \in {j \in 1 .. Len(s) : s[j] # 0}} |-> s[a + 1]],
   err |-> "ok"]

\* mutant: message 15 still goes to block 1
start_address_late(i) ==
  IF i <= message_block_1_count
  THEN message_block_1_start_addr + i * message_record_size
  ELSE message_block_2_start_addr + (i - message_block_1_count) * message_record_size

\* lines 814-817: the address compileCodeplug writes message i at
start_address(i) ==
  IF i < message_block_1_count
  THEN message_block_1_start_addr + (i * message_record_size)
  ELSE message_block_2_start_addr + ((i - message_block_1_count) * message_record_size)

\* lines 592-596: the address decompileCodeplug reads message slot i at
start_of_message(i) ==
  IF i < message_block_1_count
  THEN message_block_1_start_addr + i * message_record_size
  ELSE message_block_2_start_addr + (i - message_block_1_count) * message_record_size

\* lines 819-821: one quick message, truncated to the record size
WriteMessage(template, msg, i) ==
  LET text == SubSeq(msg, 1, Min(Len(msg), message_record_size))
  IN IF IsAscii(text)
     THEN SliceAssign(template, start_address(i), start_address(i) + Len(text), BytesOf(text))
     ELSE Raise(template, "UnicodeEncodeError")

\* lines 810-821: the quick messages
WriteMessages(template, codeplug) ==
  FoldRange(LAMBDA t, i : WriteMessage(t, codeplug["Quick messages"][i + 1], i),
            template, 0, Len(codeplug["Quick messages"]) - 1)

\* lines 823-830: the contacts
WriteContacts(template, codeplug) ==
  FoldRange(LAMBDA t, count :
              SliceAssign(t, contact_start_address + contact_record_size * count,
                          contact_start_address + contact_record_size * (count + 1),
                          toBytes(Zeros(contact_record_size), contact_parameters,
                                  codeplug["Contacts"][count + 1])),
            template, 0, Len(codeplug["Contacts"]) - 1)

\* lines 839-841: the (group, channel) pairs of one scan list
PutPairs(rec, pairs) ==
  FoldRange(LAMBDA r, i :
              SliceAssign(SliceAssign(r, 16 + i * 4, 16 + i * 4 + 2,
                                      ToBytesLE(pairs[i + 1]["Group"], 2)),
                          16 + i * 4 + 2, 16 + i * 4 + 4,
                          ToBytesLE(pairs[i + 1]["Channel"], 2)),
            rec, 0, Len(pairs) - 1)

\* lines 835-841: one scan list record
scan_list_record(scan_list) ==
  PutPairs(toBytes(Zeros(scan_list_record_size), scan_list_info, scan_list),
           scan_list["Selected channels"])

\* lines 832-844: the scan lists
WriteScanLists(template, codeplug) ==
  FoldRange(LAMBDA t, count :
              SliceAssign(t, scan_list_start_address + scan_list_record_size * count,
                          scan_list_start_address + scan_list_record_size * (count + 1),
                          scan_list_record(codeplug["Scan lists"][count + 1])),
            template, 0, Len(codeplug["Scan lists"]) - 1)

\* lines 853-854: the contact ids of one RX group
PutIds(rec, ids) ==
  FoldRange(LAMBDA r, i :
              SliceAssign(r, 10 + i * 2, 10 + (i + 1) * 2, ToBytesLE(ids[i + 1], 2)),
            rec, 0, Len(ids) - 1)

\* lines 849-854: one RX group record
group_record(group) ==
  PutIds(toBytes(Zeros(rx_group_record_size), rx_group_info, group), group["Contacts"])

\* lines 846-857: the RX groups
WriteRxGroups(template, codeplug) ==
  FoldRange(LAMBDA t, count :
              SliceAssign(t, rx_group_start_address + rx_group_record_size * count,
                          rx_group_start_address + rx_group_record_size * (count + 1),
                          group_record(codeplug["RX groups"][count + 1])),
            template, 0, Len(codeplug["RX groups"]) - 1)

\* mutant: the offset starts at the zone count, without the one slot more
channel_offset_short(zones, count) == Len(zones) + SumLens(zones, count)

\* lines 863-866: the channel offset of the zone at position count (0-based)
channel_offset(zones, count) == Len(zones) + 1 + SumLens(zones, count)

\* lines 869-875: one zone record
zone_record(zones, count) ==
  LET r0 == toBytes(Zeros(zone_record_size), zone_info, zones[count + 1])
      r1 == SliceAssign(r0, 13, 13 + 2, ToBytesLE(channel_offset(zones, count), 2))
  IN SliceAssign(r1, 15, 15 + 2, ToBytesLE(Len(zones[count + 1]["Channels"]), 2))

\* lines 860-878: the zones
WriteZones(template, codeplug, plan) ==
  FoldRange(LAMBDA t, count :
              SliceAssign(t, plan.zone_start_address + zone_record_size * count,
                          plan.zone_start_address + zone_record_size * (count + 1),
                          zone_record(codeplug["Zones"], count)),
            template, 0, Len(codeplug["Zones"]) - 1)

\* lines 886-894: one tone value turned back into its stored index;
\* -1 stands for the ValueError of list.index()
EncodeTone(type, tone) ==
  IF type = "CTCSS" THEN IndexOf(CTCSS_Tones, tone)
  ELSE IF type # "OFF" THEN IndexOf(DCS_Codes, tone)
  ELSE tone

\* lines 900-915: the forced-on flags of one channel
EncodeTSON(channel) ==
  LET t0 == ("TS Rx ON" :> "OFF") @@ ("TS Tx ON" :> "OFF")
      t1 == IF channel["Rx Freq"] # channel["Tx Freq"]
            THEN [t0 EXCEPT !["TS Rx ON"] = "OFF", !["TS Tx ON"] = "OFF"]
            ELSE t0
      t2 == IF channel["TS Rx"] = "ON" THEN [t1 EXCEPT !["TS Rx ON"] = "ON"] ELSE t1
  IN IF channel["TS Tx"] = "ON" THEN [t2 EXCEPT !["TS Tx ON"] = "ON"] ELSE t2

\* lines 886-894: list.index() raises the ValueError for this channel
ToneErr(channel) ==
  \/ channel["Tone Type Tx"] # "OFF"
       /\ EncodeTone(channel["Tone Type Tx"], channel["Tone Tx"]) < 0
  \/ channel["Tone Type Rx"] # "OFF"
       /\ EncodeTone(channel["Tone Type Rx"], channel["Tone Rx"]) < 0

\* lines 886-921: one channel record
channel_record(channel) ==
  IF ToneErr(channel) THEN Raise(Zeros(channel_record_size), "ValueError")
  ELSE toBytes(toBytes(Zeros(channel_record_size), channel_info,
                       [channel EXCEPT
                          !["Tone Tx"] = EncodeTone(channel["Tone Type Tx"], @),
                          !["Tone Rx"] = EncodeTone(channel["Tone Type Rx"], @)]),
               tson_info, EncodeTSON(channel))

RECURSIVE AllChannels(_, _)
\* the channels of the first k zones, in document order
AllChannels(zones, k) ==
  IF k = 0 THEN <<>> ELSE AllChannels(zones, k - 1) \o zones[k]["Channels"]

\* lines 880-924: the channels
WriteChannels(template, codeplug, plan) ==
  LET channels == AllChannels(codeplug["Zones"], Len(codeplug["Zones"]))
  IN FoldRange(LAMBDA t, count :
                 SliceAssign(t, plan.channel_start_address + channel_record_size * count,
                             plan.channel_start_address + channel_record_size * (count + 1),
                             channel_record(channels[count + 1])),
               template, 0, Len(channels) - 1)

\* --------------------------------------------------- decompileCodeplug
\* lines 552-564: the singleton sections before APRS
ReadSingletons(data) ==
  ("Device info" :> fromBytes(dev_info, Whole(data)))
  @@ ("Basic parameters" :> fromBytes(basic_parameters, Whole(data)))
  @@ ("Common menu parameters" :> fromBytes(common_menu_parameters, Whole(data)))
  @@ ("Prompt Tone" :> fromBytes(prompt_tone_parameters, Whole(data)))
  @@ ("Indicators" :> fromBytes(indicator_parameters, Whole(data)))
  @@ ("Preset buttons" :> fromBytes(button_preset_parameters, Whole(data)))
  @@ ("Mic gain" :> fromBytes(mic_gain_parameters, Whole(data)))

FirstErr(errs) ==
  IF \A i \in 1 .. Len(errs) : errs[i] = "ok" THEN "ok"
  ELSE errs[CHOOSE i \in 1 .. Len(errs) :
              errs[i] # "ok" /\ \A j \in 1 .. i - 1 : errs[j] = "ok"]

ReadSingletonsErr(data) ==
  FirstErr(<<fromBytesErr(dev_info, Whole(data)),
             fromBytesErr(basic_parameters, Whole(data)),
             fromBytesErr(common_menu_parameters, Whole(data)),
             fromBytesErr(prompt_tone_parameters, Whole(data)),
             fromBytesErr(indicator_parameters, Whole(data)),
             fromBytesErr(button_preset_parameters, Whole(data)),
             fromBytesErr(mic_gain_parameters, Whole(data))>>)

\* lines 571-578: the document's string for a stored AX25 QT/DQT value;
\* <<>> stands for the IndexError of CTCSS_Tones[51]
DecodeQT(v) ==
  IF 159 <= v /\ v <= 267 THEN <<68>> \o ZFill(Digits(ListAt(DCS_Codes, v - 160)), 3) \o <<73>>
  ELSE IF 52 <= v /\ v <= 158 THEN <<68>> \o ZFill(Digits(ListAt(DCS_Codes, v - 53)), 3) \o <<78>>
  ELSE IF 1 <= v /\ v <= 51 THEN
    IF ListAt(CTCSS_Tones, v) < 0 THEN <<>> ELSE FloatStr(ListAt(CTCSS_Tones, v))
  ELSE StrOff

\* lines 580-583: the eight APRS DMR channel records
ReadAPRSDMR(data) ==
  [i \in 1 .. 8 |->
     fromBytes(aprs_dmr_record_parameters,
               Window(data, aprs_dmr_channel_start_address + (i - 1) * 8,
                      aprs_dmr_channel_start_address + i * 8))]

\* lines 566-583: the APRS section
ReadAPRS(data) ==
  LET a == fromBytes(aprs_parameters, Whole(data))
  IN ("DMR channels" :> ReadAPRSDMR(data))
     @@ [a EXCEPT !["AX25 QT/DQT"] = DecodeQT(@)]

ReadAPRSErr(data) ==
  FirstErr(<<fromBytesErr(aprs_parameters, Whole(data)),
             IF Len(DecodeQT(fromBytes(aprs_parameters, Whole(data))["AX25 QT/DQT"])) = 0
             THEN "IndexError" ELSE "ok">>
           \o [i \in 1 .. 8 |->
                 fromBytesErr(aprs_dmr_record_parameters,
                              Window(data, aprs_dmr_channel_start_address + (i - 1) * 8,
                                     aprs_dmr_channel_start_address + i * 8))])

\* lines 593-604: one pass of the loop over the message slots, at slot i.
\* st = [list, msg_str, bound, err]: msg_str keeps the value of the last
\* slot that decoded, and is unbound until one has
ReadMessageSlot(data, st, i) ==
  LET raw == Slice(data, start_of_message(i), start_of_message(i) + message_record_size)
      s1 == IF IsAscii(raw)
            THEN [st EXCEPT !.msg_str = RStripNul(raw), !.bound = TRUE]
            ELSE st
  IN IF st.err # "ok" THEN st
     ELSE IF ~s1.bound THEN [s1 EXCEPT !.err = "UnboundLocalError"]
     ELSE IF Len(s1.msg_str) # 0 THEN [s1 EXCEPT !.list = Append(@, s1.msg_str)]
     ELSE s1

ReadMessagesState(data) ==
  FoldRange(LAMBDA st, i : ReadMessageSlot(data, st, i),
            [list |-> <<>>, msg_str |-> <<>>, bound |-> FALSE, err |-> "ok"],
            0, message_block_1_count + message_block_2_count - 1)

\* lines 589-604: the quick messages
ReadMessages(data) == ReadMessagesState(data).list

ReadMessagesErr(data) == ReadMessagesState(data).err

\* lines 611-616: the contacts
ReadContacts(data, num_contacts) ==
  [i \in 1 .. num_contacts |->
     fromBytes(contact_parameters,
               Window(data, contact_start_address + (i - 1) * contact_record_size,
                      contact_start_address + i * contact_record_size))]

ReadContactsErr(data, num_contacts) ==
  FirstErr([i \in 1 .. num_contacts |->
     fromBytesErr(contact_parameters,
               Window(data, contact_start_address + (i - 1) * contact_record_size,
                      contact_start_address + i * contact_record_size))])

\* lines 629-636: the pairs of the scan list record at record_start_addr
selected_channels(data, record_start_addr) ==
  LET group(j) == FromBytesLE(data, record_start_addr + 16 + j * 4, 2)
      channel(j) == FromBytesLE(data, record_start_addr + 16 + j * 4 + 2, 2)
      kept == SelectSeq([j \in 1 .. 50 |-> j - 1],
                        LAMBDA j : group(j) # 0 /\ channel(j) # 0)
  IN [n \in 1 .. Len(kept) |->
        ("Group" :> group(kept[n])) @@ ("Channel" :> channel(kept[n]))]

\* lines 624-626: the record decoded at scan list slot i
scan_list_at(data, i) ==
  fromBytes(scan_list_info,
            Window(data, scan_list_start_address + i * scan_list_record_size,
                   scan_list_start_address + (i + 1) * scan_list_record_size))

\* the slots in 0..249 that hold a non-zero byte: a slot of zero bytes
\* decodes to an empty name and no members
TouchedSlots(data, start, size) ==
  {(a - start) \div size : a \in {x \in DOMAIN data.b : x >= start /\ x < start + 250 * size}}

SortedSlots(S) ==
  LET RECURSIVE Asc(_)
      Asc(T) == IF T = {} THEN <<>>
                ELSE LET m == CHOOSE x \in T : \A y \in T : x <= y
                     IN <<m>> \o Asc(T \ {m})
  IN Asc(S)

\* lines 620-640: the scan lists
ReadScanLists(data) ==
  LET slots == SortedSlots({i \in TouchedSlots(data, scan_list_start_address,
                                               scan_list_record_size) :
                              Len(scan_list_at(data, i)["Name"]) # 0})
  IN [n \in 1 .. Len(slots) |->
        ("Selected channels" :>
           selected_channels(data, scan_list_start_address + slots[n] * scan_list_record_size))
        @@ scan_list_at(data, slots[n])]

ReadScanListsErr(data) ==
  LET slots == SortedSlots(TouchedSlots(data, scan_list_start_address, scan_list_record_size))
  IN FirstErr([n \in 1 .. Len(slots) |->
       fromBytesErr(scan_list_info,
            Window(data, scan_list_start_address + slots[n] * scan_list_record_size,
                   scan_list_start_address + (slots[n] + 1) * scan_list_record_size))])

\* lines 647-652: the record decoded at RX group slot i
rx_group_at(data, i) ==
  LET base == rx_group_start_address + i * rx_group_record_size
      id(j) == FromBytesLE(data, base + 10 + j * 2, 2)
      kept == SelectSeq([j \in 1 .. 100 |-> j - 1], LAMBDA j : id(j) # 0)
  IN ("Contacts" :> [n \in 1 .. Len(kept) |-> id(kept[n])])
     @@ fromBytes(rx_group_info, Window(data, base, base + rx_group_record_size))

\* lines 642-657: the RX groups
ReadRxGroups(data) ==
  LET slots == SortedSlots({i \in TouchedSlots(data, rx_group_start_address,
                                               rx_group_record_size) :
                              \/ Len(rx_group_at(data, i)["Name"]) # 0
                              \/ Len(rx_group_at(data, i)["Contacts"]) # 0})
  IN [n \in 1 .. Len(slots) |-> rx_group_at(data, slots[n])]

ReadRxGroupsErr(data) ==
  LET slots == SortedSlots(TouchedSlots(data, rx_group_start_address, rx_group_record_size))
  IN FirstErr([n \in 1 .. Len(slots) |->
       fromBytesErr(rx_group_info,
            Window(data, rx_group_start_address + slots[n] * rx_group_record_size,
                   rx_group_start_address + (slots[n] + 1) * rx_group_record_size))])

\* mutant: the stored index is kept as the tone value
DecodeTone_index(type, index) == index

\* lines 710-719: one tone index resolved; -1 stands for the IndexError
DecodeTone(type, index) ==
  IF type = "CTCSS" THEN ListAt(CTCSS_Tones, index)
  ELSE IF type # "OFF" THEN ListAt(DCS_Codes, index)
  ELSE index

\* mutant: the stored flags are applied whatever the two frequencies are
ApplyTSON_any(channel, channel_data) ==
  LET t1 == fromBytes(tson_info, channel_data)
      c1 == IF t1["TS Rx ON"] = "ON" THEN [channel EXCEPT !["TS Rx"] = "ON"] ELSE channel
  IN IF t1["TS Tx ON"] = "ON" THEN [c1 EXCEPT !["TS Tx"] = "ON"] ELSE c1

\* lines 693-706: the timeslot fields after the forced-on flags are applied
ApplyTSON(channel, channel_data) ==
  LET t0 == fromBytes(tson_info, channel_data)
      t1 == IF channel["Rx Freq"] # channel["Tx Freq"]
            THEN [t0 EXCEPT !["TS Rx ON"] = "OFF", !["TS Tx ON"] = "OFF"]
            ELSE t0
      c1 == IF t1["TS Rx ON"] = "ON" THEN [channel EXCEPT !["TS Rx"] = "ON"] ELSE channel
  IN IF t1["TS Tx ON"] = "ON" THEN [c1 EXCEPT !["TS Tx"] = "ON"] ELSE c1

\* lines 680-721: one channel decoded from its 32-byte window
ReadChannel(channel_data) ==
  LET c == ApplyTSON(fromBytes(channel_info, channel_data), channel_data)
  IN [c EXCEPT !["Tone Tx"] = DecodeTone(c["Tone Type Tx"], @),
               !["Tone Rx"] = DecodeTone(c["Tone Type Rx"], @)]

ReadChannelErr(channel_data) ==
  LET c == fromBytes(channel_info, channel_data)
  IN FirstErr(<<fromBytesErr(channel_info, channel_data),
                fromBytesErr(tson_info, channel_data),
                IF \/ c["Tone Type Tx"] # "OFF" /\ DecodeTone(c["Tone Type Tx"], c["Tone Tx"]) < 0
                   \/ c["Tone Type Rx"] # "OFF" /\ DecodeTone(c["Tone Type Rx"], c["Tone Rx"]) < 0
                THEN "IndexError" ELSE "ok">>)

\* line 665: the window of the zone record at position z (0-based)
ZoneWindow(data, zone_start_address, z) ==
  Window(data, zone_start_address + 32 * z, zone_start_address + 32 * (z + 1))

\* mutant: the stored offset is taken as counted from zero
ChannelWindow_from0(data, zone_start_address, z, i) ==
  LET zone_data == ZoneWindow(data, zone_start_address, z)
      channels_offset == WFromBytesLE(zone_data, 13, 2) * 32
  IN Window(data, zone_start_address + channels_offset + i * 32,
            zone_start_address + channels_offset + (i + 1) * 32)

\* lines 669-680: the window of channel i (0-based) of the zone at position z
ChannelWindow(data, zone_start_address, z, i) ==
  LET zone_data == ZoneWindow(data, zone_start_address, z)
      channels_offset == (WFromBytesLE(zone_data, 13, 2) - 1) * 32
  IN Window(data, zone_start_address + channels_offset + i * 32,
            zone_start_address + channels_offset + (i + 1) * 32)

\* lines 664-724: the zone at position z (0-based) with its channels
ReadZone(data, zone_start_address, z) ==
  LET zone_data == ZoneWindow(data, zone_start_address, z)
      num_channels == WFromBytesLE(zone_data, 15, 2)
  IN ("Channels" :> [i \in 1 .. num_channels |->
                       ReadChannel(ChannelWindow(data, zone_start_address, z, i - 1))])
     @@ fromBytes(zone_info, zone_data)

ReadZoneErr(data, zone_start_address, z) ==
  LET zone_data == ZoneWindow(data, zone_start_address, z)
      num_channels == WFromBytesLE(zone_data, 15, 2)
  IN FirstErr(<<fromBytesErr(zone_info, zone_data)>>
              \o [i \in 1 .. num_channels |->
                    ReadChannelErr(ChannelWindow(data, zone_start_address, z, i - 1))])

\* lines 660-724: the zones
ReadZones(data, plan) ==
  [z \in 1 .. plan.num_zones |-> ReadZone(data, plan.zone_start_address, z - 1)]

ReadZonesErr(data, plan) ==
  FirstErr([z \in 1 .. plan.num_zones |-> ReadZoneErr(data, plan.zone_start_address, z - 1)])

\* ----------------------------------------------------------- documents
MaxZones == 2
MaxChannels == 2
MaxFieldValues == 3
MaxItems == 2

\* the largest value of a two-byte counter
MaxCount == 65535

\* the contact counts on both sides of the first parity fix-up
ContactCounts == {0, 1, 64, 65}

\* the section decoded from a codeplug of zero bytes
Blank(definitions) == fromBytes(definitions, Whole(Zeros(8192)))

BlankDoc ==
  ("Device info" :> Blank(dev_info))
  @@ ("Basic parameters" :> Blank(basic_parameters))
  @@ ("Common menu parameters" :> Blank(common_menu_parameters))
  @@ ("Prompt Tone" :> Blank(prompt_tone_parameters))
  @@ ("Indicators" :> Blank(indicator_parameters))
  @@ ("Preset buttons" :> Blank(button_preset_parameters))
  @@ ("Mic gain" :> Blank(mic_gain_parameters))
  @@ ("APRS" :> (("DMR channels" :> [i \in 1 .. 8 |-> Blank(aprs_dmr_record_parameters)])
                 @@ [Blank(aprs_parameters) EXCEPT !["AX25 QT/DQT"] = StrOff]))
  @@ ("DMR Service" :> Blank(dmr_parameters))
  @@ ("Quick messages" :> <<>>)
  @@ ("Contacts" :> <<>>)
  @@ ("Scan lists" :> <<>>)
  @@ ("RX groups" :> <<>>)
  @@ ("Zones" :> <<>>)

SingletonSections ==
  << <<"Device info", dev_info>>, <<"Basic parameters", basic_parameters>>,
     <<"Common menu parameters", common_menu_parameters>>,
     <<"Prompt Tone", prompt_tone_parameters>>, <<"Indicators", indicator_parameters>>,
     <<"Preset buttons", button_preset_parameters>>, <<"Mic gain", mic_gain_parameters>>,
     <<"DMR Service", dmr_parameters>>, <<"APRS", aprs_parameters>> >>

\* values of a field's declared domain: every enum label, the ends of a
\* number's range and of a masked number's stored range, texts up to the width
FieldValues(d) ==
  CASE d.kind = "Bitmask" -> [i \in 1 .. Len(d.enum) |-> d.enum[i][2]]
    [] d.kind = "Number" -> <<1, IF d.arg >= 4 THEN 2147483647 ELSE Pow256(d.arg) - 1>>
    [] d.kind = "MaskNum" ->
         <<DecodeTransform(d.tf, BitAnd(1, d.arg)), DecodeTransform(d.tf, d.arg)>>
    [] d.kind = "String" -> <<<<65>>, [i \in 1 .. d.arg |-> 66]>>

MkContact(i) ==
  ("ID" :> i) @@ ("Name" :> <<78, 48 + (i % 10)>>) @@ ("DMR ID" :> 2340000 + i)
  @@ ("Type" :> IF i % 2 = 0 THEN "Private" ELSE "Group")

BaseChannel ==
  [Blank(channel_info) EXCEPT !["ID"] = 1, !["Name"] = <<67, 72>>,
                              !["Rx Freq"] = 43000000, !["Tx Freq"] = 43000000]

MkZone(z, channels) ==
  ("ID" :> z) @@ ("Name" :> <<90, 48 + (z % 10)>>) @@ ("Channels" :> channels)

\* the documents of a layout: nc contacts, and zones of the given channel counts
LayoutDoc(nc, shape) ==
  [BlankDoc EXCEPT
     !["Contacts"] = [i \in 1 .. nc |-> MkContact(i)],
     !["Zones"] = [z \in 1 .. Len(shape) |->
                     MkZone(z, [c \in 1 .. shape[z] |->
                                  [BaseChannel EXCEPT !["ID"] = 10 * z + c]])]]

Shapes == UNION {[1 .. k -> 0 .. MaxChannels] : k \in 0 .. MaxZones}

\* the tone edits of a channel: a tone type with a tone of its table
ToneEdits ==
  << ("Tone Type Tx" :> "CTCSS") @@ ("Tone Tx" :> 625),
     ("Tone Type Tx" :> "CTCSS") @@ ("Tone Tx" :> 2541),
     ("Tone Type Tx" :> "DCS") @@ ("Tone Tx" :> 17),
     ("Tone Type Tx" :> "DCS Invert") @@ ("Tone Tx" :> 754),
     ("Tone Type Rx" :> "CTCSS") @@ ("Tone Rx" :> 885),
     ("Tone Type Rx" :> "DCS") @@ ("Tone Rx" :> 23),
     ("Tone Type Rx" :> "DCS Invert") @@ ("Tone Rx" :> 17) >>

\* one zone holding one channel
ChannelDoc(channel) ==
  [BlankDoc EXCEPT !["Contacts"] = <<MkContact(1)>>,
                   !["Zones"] = <<MkZone(1, <<channel>>)>>]

TimeslotChannel(simplex, tsrx, tstx) ==
  [BaseChannel EXCEPT !["Tx Freq"] = IF simplex THEN 43000000 ELSE 43760000,
                      !["TS Rx"] = tsrx, !["TS Tx"] = tstx]

TSLabels == {"TS1", "TS2", "ON"}

MsgTexts == << <<>>, <<72, 105>>, [i \in 1 .. message_record_size |-> 77] >>

ScanListItems ==
  << ("Selected channels" :> <<>>)
       @@ [Blank(scan_list_info) EXCEPT !["Name"] = <<83, 49>>],
     ("Selected channels" :> << ("Group" :> 1) @@ ("Channel" :> 2),
                                ("Group" :> 3) @@ ("Channel" :> 4) >>)
       @@ [Blank(scan_list_info) EXCEPT !["Name"] = <<83, 50>>, !["Talkback"] = "On"],
     ("Selected channels" :> << ("Group" :> 1) @@ ("Channel" :> 1) >>)
       @@ Blank(scan_list_info) >>

RxGroupItems ==
  << ("Contacts" :> <<>>) @@ ("Name" :> <<82, 49>>),
     ("Contacts" :> <<7, 300>>) @@ ("Name" :> <<82, 50>>),
     ("Contacts" :> <<9>>) @@ ("Name" :> <<>>) >>

Lists(items) == UNION {[1 .. k -> 1 .. Len(items)] : k \in 0 .. MaxItems}

\* the whole of decompileCodeplug: the document returned
DecompileCodeplug(data) ==
  LET plan == DecodePlan(data)
  IN ReadSingletons(data)
     @@ ("APRS" :> ReadAPRS(data))
     @@ ("DMR Service" :> fromBytes(dmr_parameters, Whole(data)))
     @@ ("Quick messages" :> ReadMessages(data))
     @@ ("Contacts" :> ReadContacts(data, plan.num_contacts))
     @@ ("Scan lists" :> ReadScanLists(data))
     @@ ("RX groups" :> ReadRxGroups(data))
     @@ ("Zones" :> ReadZones(data, plan))

\* the whole of decompileCodeplug: the exception it raises, "ok" when none
DecompileCodeplugErr(data) ==
  FirstErr(<<ReadSingletonsErr(data), ReadAPRSErr(data),
             fromBytesErr(dmr_parameters, Whole(data)), ReadMessagesErr(data),
             ReadContactsErr(data, DecodePlan(data).num_contacts),
             ReadScanListsErr(data), ReadRxGroupsErr(data),
             ReadZonesErr(data, DecodePlan(data))>>)

\* lines 926-931: the size check; on a mismatch the second print adds an
\* int to a str, which raises before sys.exit(4) is reached
SizeCheck(template, plan) ==
  IF template.len # plan.codeplug_size THEN "TypeError" ELSE "ok"

\* lines 926-931: the buffer built, and the exception raised by a section
\* write or by the size check
Checked(template, plan) ==
  [template |-> template,
   err |-> IF template.err # "ok" THEN template.err ELSE SizeCheck(template, plan)]

\* lines 769-931: compileCodeplug after the layout is planned
CompileWith(codeplug, plan) ==
  Checked(
    WriteChannels(
      WriteZones(
        WriteRxGroups(
          WriteScanLists(
            WriteContacts(
              WriteMessages(
                WriteAPRSDMR(
                  WriteAPRS(
                    WriteSingletons(
                      WriteCounts(Zeros(plan.codeplug_size), plan),
                      codeplug),
                    codeplug),
                  codeplug),
                codeplug),
              codeplug),
            codeplug),
          codeplug),
        codeplug, plan),
      codeplug, plan),
    plan)

\* the whole of compileCodeplug: the buffer built and the exception raised
CompileCodeplug(codeplug) == CompileWith(codeplug, EncodePlan(codeplug))

\* ------------------------------------------------------- state machine
VARIABLES
  doc,       \* the document handed to compileCodeplug
  pc,        \* the next step
  plan,      \* compileCodeplug: the counts and planned addresses
  template,  \* compileCodeplug: the buffer under construction
  image1,    \* the buffer compileCodeplug returned
  data,      \* the image handed to decompileCodeplug
  edited,    \* data is not the buffer compileCodeplug returned
  dplan,     \* decompileCodeplug: the counts read and planned addresses
  decoded,   \* the document decompileCodeplug returned
  image2,    \* the buffer compileCodeplug returned for the decoded document
  raised,    \* the exception that ended the run, "ok" when none
  definitions, \* Parser: the schema handed to fromBytes or toBytes
  exit_status, \* the exit status of the process, NotExited while it runs
  port       \* uploadCodeplug: the serial port and what went over it

vars ==
  <<doc, pc, plan, template, image1, data, edited, dplan, decoded, image2, raised,
    definitions, exit_status, port>>

\* the process has not exited
NotExited == -1

\* no serial port was opened: request is the block count byte of the
\* "Flash Write" request written, hello the reply read to it, blocks the
\* offsets of the data blocks written and replies the replies read to them
ClosedPort ==
  [open |-> FALSE, opened |-> FALSE, request |-> -1, hello |-> <<>>,
   blocks |-> <<>>, replies |-> <<>>]

NoPlan ==
  [num_contacts |-> 0, num_zones |-> 0, num_channels |-> 0, contact_block_size |-> 0,
   zone_start_address |-> 0, channel_start_address |-> 0, codeplug_size |-> 0]

NoDoc == [k \in {} |-> 0]

InitRest ==
  /\ pc = "plan"
  /\ plan = NoPlan
  /\ template = Zeros(0)
  /\ image1 = Zeros(0)
  /\ image2 = Zeros(0)
  /\ data = Zeros(0)
  /\ edited = FALSE
  /\ dplan = NoPlan
  /\ decoded = NoDoc
  /\ raised = "ok"
  /\ definitions = <<>>
  /\ exit_status = NotExited
  /\ port = ClosedPort

\* zones of every shape, with no contact or one
InitLayout ==
  \E nc \in 0 .. 1, shape \in Shapes : doc = LayoutDoc(nc, shape)

\* contact counts on both sides of the parity fix-up, with no zone or one
InitContacts ==
  \E nc \in ContactCounts, nz \in 0 .. 1 : doc = LayoutDoc(nc, [z \in 1 .. nz |-> 1])

InitTimeslot ==
  \E simplex \in BOOLEAN, tsrx \in TSLabels, tstx \in TSLabels :
    doc = ChannelDoc(TimeslotChannel(simplex, tsrx, tstx))

InitChannelField ==
  \E i \in 1 .. Len(channel_info), j \in 1 .. MaxFieldValues :
    /\ j <= Len(FieldValues(channel_info[i]))
    /\ channel_info[i].name \notin {"Rx Freq", "Tx Freq"}
    /\ doc = ChannelDoc([TimeslotChannel(FALSE, "TS1", "TS2") EXCEPT
                           ![channel_info[i].name] = FieldValues(channel_info[i])[j]])

InitChannelTone ==
  \E simplex \in BOOLEAN, i \in 1 .. Len(ToneEdits) :
    doc = ChannelDoc(ToneEdits[i] @@ TimeslotChannel(simplex, "TS2", "TS1"))

InitSingleton ==
  \E s \in 1 .. Len(SingletonSections) :
    \E i \in 1 .. Len(SingletonSections[s][2]), j \in 1 .. MaxFieldValues :
      LET d == SingletonSections[s][2][i]
      IN /\ j <= Len(FieldValues(d))
         /\ d.name # "AX25 QT/DQT"
         /\ doc = [BlankDoc EXCEPT ![SingletonSections[s][1]][d.name] = FieldValues(d)[j]]

InitMessages ==
  \E l \in Lists(MsgTexts) :
    doc = [BlankDoc EXCEPT !["Quick messages"] = [n \in 1 .. Len(l) |-> MsgTexts[l[n]]]]

InitScanLists ==
  \E l \in Lists(ScanListItems) :
    doc = [BlankDoc EXCEPT !["Scan lists"] = [n \in 1 .. Len(l) |-> ScanListItems[l[n]]]]

InitRxGroups ==
  \E l \in Lists(RxGroupItems) :
    doc = [BlankDoc EXCEPT !["RX groups"] = [n \in 1 .. Len(l) |-> RxGroupItems[l[n]]]]

Init ==
  /\ \/ InitLayout
     \/ InitContacts
     \/ InitTimeslot
     \/ InitChannelField
     \/ InitChannelTone
     \/ InitSingleton
     \/ InitMessages
     \/ InitScanLists
     \/ InitRxGroups
  /\ InitRest

\* one step of compileCodeplug: the buffer it leaves, and the next step
\* unless it raised
CompileStep(from, to, t) ==
  /\ pc = from
  /\ template' = t
  /\ pc' = IF t.err = "ok" THEN to ELSE "raised"
  /\ raised' = t.err
  /\ UNCHANGED <<doc, definitions, exit_status, port, plan, image1, image2, data, edited, dplan, decoded>>

\* lines 730-769
CPlan ==
  /\ pc = "plan"
  /\ plan' = EncodePlan(doc)
  /\ template' = Zeros(plan'.codeplug_size)
  /\ pc' = "counts"
  /\ UNCHANGED <<doc, definitions, exit_status, port, image1, image2, data, edited, dplan, decoded, raised>>

CCounts == CompileStep("counts", "singletons", WriteCounts(template, plan))

CSingletons == CompileStep("singletons", "aprs", WriteSingletons(template, doc))

CAPRS == CompileStep("aprs", "aprs_dmr", WriteAPRS(template, doc))

CAPRSDMR == CompileStep("aprs_dmr", "messages", WriteAPRSDMR(template, doc))

CMessages == CompileStep("messages", "contacts", WriteMessages(template, doc))

CContacts == CompileStep("contacts", "scan_lists", WriteContacts(template, doc))

CScanLists == CompileStep("scan_lists", "rx_groups", WriteScanLists(template, doc))

CRxGroups == CompileStep("rx_groups", "zones", WriteRxGroups(template, doc))

CZones == CompileStep("zones", "channels", WriteZones(template, doc, plan))

CChannels == CompileStep("channels", "check", WriteChannels(template, doc, plan))

\* lines 926-931: the buffer is returned when it has the planned size
CCheck ==
  /\ pc = "check"
  /\ raised' = SizeCheck(template, plan)
  /\ pc' = IF raised' = "ok" THEN "compiled" ELSE "raised"
  /\ image1' = IF raised' = "ok" THEN template ELSE image1
  /\ UNCHANGED <<doc, definitions, exit_status, port, plan, template, image2, data, edited, dplan, decoded>>

\* the image compileCodeplug returned is the one handed to decompileCodeplug
Reload ==
  /\ pc = "compiled"
  /\ data' = image1
  /\ pc' = "loaded"
  /\ UNCHANGED <<doc, definitions, exit_status, port, plan, template, image1, image2, edited, dplan, decoded, raised>>

\* the flag bits TS Rx ON (0x01) and TS Tx ON (0x04) of byte 0x1D
FlagBits == {0, 1, 4, 5}

\* the image comes back from the radio with the forced-on flags of its
\* first channel record as the radio or other tooling left them
DeviceEdit ==
  /\ pc = "compiled"
  /\ plan.num_channels >= 1
  /\ \E v \in FlagBits :
       LET a == plan.channel_start_address + 29
       IN /\ data' = Put(image1, a, Rd(image1, a) - BitAnd(Rd(image1, a), 5) + v)
          /\ data' # image1
  /\ edited' = TRUE
  /\ pc' = "loaded"
  /\ UNCHANGED <<doc, definitions, exit_status, port, plan, template, image1, image2, dplan, decoded, raised>>

\* decompileCodeplug, lines 516-727
Decompile ==
  /\ pc = "loaded"
  /\ dplan' = DecodePlan(data)
  /\ raised' = DecompileCodeplugErr(data)
  /\ IF raised' = "ok"
     THEN decoded' = DecompileCodeplug(data) /\ pc' = "decoded"
     ELSE decoded' = decoded /\ pc' = "raised"
  /\ UNCHANGED <<doc, definitions, exit_status, port, plan, template, image1, image2, data, edited>>

\* the second run of compileCodeplug ends with the result r
Returns(r) ==
  /\ raised' = r.err
  /\ IF r.err = "ok"
     THEN image2' = r.template /\ pc' = "done"
     ELSE image2' = image2 /\ pc' = "raised"

\* compileCodeplug of the decoded document, lines 729-931
Recompile ==
  /\ pc = "decoded"
  /\ ~edited
  /\ Returns(CompileCodeplug(decoded))
  /\ UNCHANGED <<doc, definitions, exit_status, port, plan, template, image1, data, edited, dplan, decoded>>

Next ==
  \/ CPlan
  \/ CCounts
  \/ CSingletons
  \/ CAPRS
  \/ CAPRSDMR
  \/ CMessages
  \/ CContacts
  \/ CScanLists
  \/ CRxGroups
  \/ CZones
  \/ CChannels
  \/ CCheck
  \/ Reload
  \/ DeviceEdit
  \/ Decompile
  \/ Recompile

Spec == Init /\ [][Next]_vars

\* ------------------------------------------------- the layout planners
\* the two planners of the contact block, lines 524-539 and 741-754, on
\* every value the two-byte contact counter can hold
InitPlanner ==
  /\ \E n \in 0 .. MaxCount : plan = [NoPlan EXCEPT !.num_contacts = n]
  /\ pc = "count"
  /\ doc = NoDoc
  /\ template = Zeros(0)
  /\ image1 = Zeros(0)
  /\ image2 = Zeros(0)
  /\ data = Zeros(0)
  /\ edited = FALSE
  /\ dplan = NoPlan
  /\ decoded = NoDoc
  /\ raised = "ok"
  /\ definitions = <<>>
  /\ exit_status = NotExited
  /\ port = ClosedPort

\* lines 741-754
PlanEncode ==
  /\ pc = "count"
  /\ plan' = [plan EXCEPT
                !.contact_block_size = contact_block_size_encode(plan.num_contacts),
                !.zone_start_address = zone_start_address_encode(plan.num_contacts)]
  /\ pc' = "encode_planned"
  /\ UNCHANGED <<doc, definitions, exit_status, port, template, image1, image2, data, edited, dplan, decoded, raised>>

\* lines 524-542
PlanDecode ==
  /\ pc = "count"
  /\ dplan' = [plan EXCEPT
                 !.contact_block_size = contact_block_size_decode(plan.num_contacts),
                 !.zone_start_address = zone_start_address_decode(plan.num_contacts)]
  /\ pc' = "decode_planned"
  /\ UNCHANGED <<doc, definitions, exit_status, port, template, image1, image2, data, edited, plan, decoded, raised>>

NextPlanner ==
  \/ PlanEncode
  \/ PlanDecode

SpecPlanner == InitPlanner /\ [][NextPlanner]_vars

\* ------------------------------------------------ sections and records
\* One section or record of an image as the radio holds it, read by the
\* step of decompileCodeplug that decodes it and written again by the step
\* of compileCodeplug that encodes it.
InitCodecRest ==
  /\ plan = NoPlan
  /\ template = Zeros(0)
  /\ image1 = Zeros(0)
  /\ image2 = Zeros(0)
  /\ edited = FALSE
  /\ dplan = NoPlan
  /\ decoded = NoDoc
  /\ raised = "ok"
  /\ exit_status = NotExited
  /\ port = ClosedPort

\* the tone type field and the tone field of each direction
ToneFields == {<<"Tone Type Tx", "Tone Tx">>, <<"Tone Type Rx", "Tone Rx">>}

ToneTypes == {"OFF", "CTCSS", "DCS", "DCS Invert"}

\* a channel record holding every tone type with every value of the tone byte
InitToneRecord ==
  \E f \in ToneFields, type \in ToneTypes, index \in 0 .. Pow256(1) - 1 :
    /\ data = toBytes(Zeros(channel_record_size), channel_info,
                      [BaseChannel EXCEPT ![f[1]] = type, ![f[2]] = index])
    /\ pc = "channel_record"
    /\ doc = NoDoc
    /\ definitions = <<>>

\* the stored AX25 QT/DQT values: every range of lines 571-578 and beyond
QTValues == 0 .. 2 * Pow256(1) - 1

\* an image holding every such value in the APRS section
InitQT ==
  \E v \in QTValues :
    /\ data = toBytes(Zeros(codeplug_size_encode(0, 0, 0)), aprs_parameters,
                      [Blank(aprs_parameters) EXCEPT !["AX25 QT/DQT"] = v])
    /\ pc = "aprs_image"
    /\ doc = NoDoc
    /\ definitions = <<>>

\* lines 680-721: one channel record read
DecodeChannel ==
  /\ pc = "channel_record"
  /\ raised' = ReadChannelErr(Whole(data))
  /\ IF raised' = "ok"
     THEN decoded' = ReadChannel(Whole(data)) /\ pc' = "channel"
     ELSE decoded' = decoded /\ pc' = "decode_raised"
  /\ UNCHANGED <<doc, definitions, exit_status, port, plan, template, image1, image2, data, edited, dplan>>

\* lines 883-921: the channel read, written again
EncodeChannel ==
  /\ pc = "channel"
  /\ template' = channel_record(decoded)
  /\ raised' = template'.err
  /\ pc' = IF raised' = "ok" THEN "channel_written" ELSE "channel_raised"
  /\ UNCHANGED <<doc, definitions, exit_status, port, plan, image1, image2, data, edited, dplan, decoded>>

\* lines 566-583: the APRS section read
DecodeAPRS ==
  /\ pc = "aprs_image"
  /\ raised' = ReadAPRSErr(data)
  /\ IF raised' = "ok"
     THEN decoded' = ("APRS" :> ReadAPRS(data)) /\ pc' = "aprs"
     ELSE decoded' = decoded /\ pc' = "decode_raised"
  /\ UNCHANGED <<doc, definitions, exit_status, port, plan, template, image1, image2, data, edited, dplan>>

\* lines 789-808: the APRS section read, written again
EncodeAPRS ==
  /\ pc = "aprs"
  /\ template' = WriteAPRSDMR(WriteAPRS(Zeros(data.len), decoded), decoded)
  /\ raised' = template'.err
  /\ pc' = IF raised' = "ok" THEN "aprs_written" ELSE "aprs_raised"
  /\ UNCHANGED <<doc, definitions, exit_status, port, plan, image1, image2, data, edited, dplan, decoded>>

\* the smallest image: the one of a document with no contact and no zone
EmptyImageSize == codeplug_size_encode(0, 0, 0)

\* every schema of the program, with the length of the buffer the program
\* hands to the Parser together with it
ParserCalls ==
  << <<dev_info, EmptyImageSize>>, <<basic_parameters, EmptyImageSize>>,
     <<common_menu_parameters, EmptyImageSize>>, <<prompt_tone_parameters, EmptyImageSize>>,
     <<indicator_parameters, EmptyImageSize>>, <<button_preset_parameters, EmptyImageSize>>,
     <<mic_gain_parameters, EmptyImageSize>>, <<dmr_parameters, EmptyImageSize>>,
     <<aprs_parameters, EmptyImageSize>>, <<aprs_dmr_record_parameters, 8>>,
     <<contact_parameters, contact_record_size>>, <<scan_list_info, scan_list_record_size>>,
     <<rx_group_info, rx_group_record_size>>, <<zone_info, zone_record_size>>,
     <<channel_info, channel_record_size>>, <<tson_info, channel_record_size>> >>

\* the bytes of the buffer a field is stored in
FieldBytes(d) ==
  IF d.kind \in {"Bitmask", "MaskNum"} THEN {d.off} ELSE d.off .. d.off + d.arg - 1

\* the bits of a byte outside a mask
Unmasked(mask) == Pow256(1) - 1 - mask

\* bytes as the radio holds them: one byte of a Bitmask or MaskNum field with
\* every value of the bits under its mask, the other bits of the byte all
\* clear or all set
InitParserBytes ==
  \E c \in 1 .. Len(ParserCalls) :
    \E i \in 1 .. Len(ParserCalls[c][1]), b \in 0 .. Pow256(1) - 1 :
      /\ ParserCalls[c][1][i].kind \in {"Bitmask", "MaskNum"}
      /\ BitAnd(b, Unmasked(ParserCalls[c][1][i].arg)) \in {0, Unmasked(ParserCalls[c][1][i].arg)}
      /\ data = Put(Zeros(ParserCalls[c][2]), ParserCalls[c][1][i].off, b)
      /\ doc = NoDoc
      /\ definitions = ParserCalls[c][1]
      /\ pc = "bytes"

\* the characters a text goes beyond the width of its String field by
Overlong == <<1, 4>>

\* a value beyond what the field's storage holds: a Number of one more byte
\* than its width, a MaskNum whose stored value is 256, a text longer than
\* the width of its String
Overflows(d) ==
  CASE d.kind = "Number" /\ d.arg < 4 -> <<Pow256(d.arg)>>
    [] d.kind = "MaskNum" -> <<DecodeTransform(d.tf, Pow256(1))>>
    [] d.kind = "String" -> [n \in 1 .. Len(Overlong) |-> [c \in 1 .. d.arg + Overlong[n] |-> 67]]
    [] OTHER -> <<>>

\* the values of a field handed to toBytes
ItemValues(d) == SubSeq(FieldValues(d), 1, Min(MaxFieldValues, Len(FieldValues(d)))) \o Overflows(d)

\* a record handed to toBytes: one field holds a value of its domain or an
\* overflowing one, a second field stored in the same byte holds a value of
\* its domain, and the buffer is zeroed or holds 0xFF where the field starts
InitParserItem ==
  \E c \in 1 .. Len(ParserCalls) :
    \E i \in 1 .. Len(ParserCalls[c][1]), j \in 1 .. Len(ParserCalls[c][1]),
       k \in 1 .. MaxFieldValues + 1, l \in 1 .. MaxFieldValues, fill \in {0, Pow256(1) - 1} :
      /\ k <= Len(ItemValues(ParserCalls[c][1][i]))
      /\ \/ j = i /\ l = 1
         \/ /\ j # i
            /\ FieldBytes(ParserCalls[c][1][i]) \cap FieldBytes(ParserCalls[c][1][j]) # {}
            /\ l <= Len(FieldValues(ParserCalls[c][1][j]))
      /\ doc = [Blank(ParserCalls[c][1]) EXCEPT
                  ![ParserCalls[c][1][j].name] =
                     IF j = i THEN @ ELSE FieldValues(ParserCalls[c][1][j])[l],
                  ![ParserCalls[c][1][i].name] = ItemValues(ParserCalls[c][1][i])[k]]
      /\ data = Put(Zeros(ParserCalls[c][2]), ParserCalls[c][1][i].off, fill)
      /\ definitions = ParserCalls[c][1]
      /\ pc = "item"

\* the bytes at hand: those handed in, or those toBytes left
ParserBytes == IF pc = "bytes" THEN data ELSE template

\* Parser.fromBytes, lines 153-179
ParserFromBytes ==
  /\ pc \in {"bytes", "written"}
  /\ raised' = fromBytesErr(definitions, Whole(ParserBytes))
  /\ IF raised' = "ok"
     THEN /\ decoded' = fromBytes(definitions, Whole(ParserBytes))
          /\ pc' = IF pc = "bytes" THEN "record" ELSE "read_back"
     ELSE decoded' = decoded /\ pc' = "decode_raised"
  /\ UNCHANGED <<doc, definitions, exit_status, port, plan, template, image1, image2, data, edited, dplan>>

\* Parser.toBytes, lines 181-199: the record handed in is written into the
\* buffer handed in, the record decoded into a zeroed buffer
ParserToBytes ==
  /\ pc \in {"item", "record"}
  /\ template' = IF pc = "item" THEN toBytes(data, definitions, doc)
                 ELSE toBytes(Zeros(data.len), definitions, decoded)
  /\ raised' = template'.err
  /\ pc' = IF raised' = "ok" THEN (IF pc = "item" THEN "written" ELSE "written_back")
           ELSE (IF pc = "item" THEN "item_raised" ELSE "record_raised")
  /\ UNCHANGED <<doc, definitions, exit_status, port, plan, image1, image2, data, edited, dplan, decoded>>

\* images whose quick-message slots hold up to MaxItems messages and, in
\* one of the 100 slots, a byte that is not ASCII
InitMessageImage ==
  \E k \in 0 .. MaxItems, bad \in 0 .. message_block_1_count + message_block_2_count - 1 :
    /\ data = Put(WriteMessages(Zeros(EmptyImageSize),
                                "Quick messages" :> [n \in 1 .. k |-> <<77, 48 + n>>]),
                  start_of_message(bad), Pow256(1) - 1)
    /\ doc = NoDoc
    /\ definitions = <<>>
    /\ pc = "message_image"

\* the pair values of a scan list slot: each id zero or not
PairValues ==
  {("Group" :> g) @@ ("Channel" :> c) : g \in {0, 7}, c \in {0, 9}}

\* images holding one named scan list: one of its 50 slots holds each pair
\* value, and the last slot holds a pair of two non-zero ids
InitScanListImage ==
  \E p \in 0 .. 49, pair \in PairValues :
    /\ data = WriteScanLists(
                Zeros(EmptyImageSize),
                "Scan lists" :>
                  << ("Selected channels" :>
                        [j \in 1 .. 50 |->
                           IF j - 1 = p THEN pair
                           ELSE IF j = 50 THEN ("Group" :> 3) @@ ("Channel" :> 4)
                           ELSE ("Group" :> 0) @@ ("Channel" :> 0)])
                     @@ [Blank(scan_list_info) EXCEPT !["Name"] = <<83, 49>>] >>)
    /\ doc = NoDoc
    /\ definitions = <<>>
    /\ pc = "scan_list_image"

\* lines 589-604: the quick messages read
DecodeMessages ==
  /\ pc = "message_image"
  /\ raised' = ReadMessagesErr(data)
  /\ IF raised' = "ok"
     THEN decoded' = ("Quick messages" :> ReadMessages(data)) /\ pc' = "messages"
     ELSE decoded' = decoded /\ pc' = "messages_raised"
  /\ UNCHANGED <<doc, definitions, exit_status, port, plan, template, image1, image2, data, edited, dplan>>

\* lines 618-640: the scan lists read
DecodeScanLists ==
  /\ pc = "scan_list_image"
  /\ raised' = ReadScanListsErr(data)
  /\ IF raised' = "ok"
     THEN decoded' = ("Scan lists" :> ReadScanLists(data)) /\ pc' = "scan_lists"
     ELSE decoded' = decoded /\ pc' = "scan_lists_raised"
  /\ UNCHANGED <<doc, definitions, exit_status, port, plan, template, image1, image2, data, edited, dplan>>

InitCodec ==
  /\ \/ InitToneRecord
     \/ InitQT
     \/ InitParserBytes
     \/ InitParserItem
     \/ InitMessageImage
     \/ InitScanListImage
  /\ InitCodecRest

NextCodec ==
  \/ DecodeChannel
  \/ EncodeChannel
  \/ DecodeAPRS
  \/ EncodeAPRS
  \/ ParserFromBytes
  \/ ParserToBytes
  \/ DecodeMessages
  \/ DecodeScanLists

SpecCodec == InitCodec /\ [][NextCodec]_vars

\* ------------------------------------------------ fixed-address sections
\* Images as the radio holds them whose scan-list, RX-group, quick-message
\* and APRS DMR slots are filled, read by the steps of decompileCodeplug.

\* the slots of a 250-slot section that the images fill: the first ones and
\* the last
ListSlots == {0, 1, 249}

\* images whose scan-list slot s and RX-group slot s each hold a record with
\* or without a name and with or without one member entry
InitListImage ==
  \E s \in ListSlots, sn \in {0, 83}, sm \in {0, 7}, gn \in {0, 71}, gm \in {0, 5} :
    /\ data =
         Put(Put(Put(Put(Put(Zeros(EmptyImageSize),
           scan_list_start_address + s * scan_list_record_size, sn),
           scan_list_start_address + s * scan_list_record_size + 16, sm),
           scan_list_start_address + s * scan_list_record_size + 18, sm),
           rx_group_start_address + s * rx_group_record_size, gn),
           rx_group_start_address + s * rx_group_record_size + 10, gm)
    /\ doc = NoDoc
    /\ definitions = <<>>
    /\ pc = "list_image"

\* lines 618-657: the scan lists and the RX groups read
DecodeLists ==
  /\ pc = "list_image"
  /\ raised' = FirstErr(<<ReadScanListsErr(data), ReadRxGroupsErr(data)>>)
  /\ IF raised' = "ok"
     THEN /\ decoded' = ("Scan lists" :> ReadScanLists(data))
                        @@ ("RX groups" :> ReadRxGroups(data))
          /\ pc' = "lists"
     ELSE decoded' = decoded /\ pc' = "lists_raised"
  /\ UNCHANGED <<doc, definitions, exit_status, port, plan, template, image1, image2, data, edited, dplan>>

\* the numbers of quick messages on both sides of the block boundary and
\* of the last slot
MessageCounts ==
  {0, 1, message_block_1_count, message_block_1_count + 1,
   message_block_1_count + message_block_2_count - 1,
   message_block_1_count + message_block_2_count}

\* quick message i as a text of len characters: two that tell i, then x's
MessageText(i, len) == <<65 + (i \div 10), 48 + (i % 10)>> \o [n \in 1 .. len - 2 |-> 120]

\* documents holding k quick messages, short ones or ones as long as a
\* slot, and eight APRS DMR channel records of which at most one is filled
InitSlotDoc ==
  \E k \in MessageCounts, len \in {2, message_record_size}, r \in 0 .. 8 :
    /\ doc = ("Quick messages" :> [i \in 1 .. k |-> MessageText(i - 1, len)])
             @@ ("APRS" :>
                   ("DMR channels" :>
                      [i \in 1 .. 8 |->
                         IF i = r
                         THEN [Blank(aprs_dmr_record_parameters) EXCEPT
                                 !["Zone ID"] = 1, !["Channel ID"] = 2,
                                 !["Call Type"] = "GROUP"]
                         ELSE Blank(aprs_dmr_record_parameters)]))
    /\ data = Zeros(0)
    /\ definitions = <<>>
    /\ pc = "slot_doc"

\* lines 800-821: the APRS DMR channel records, then the quick messages,
\* written into a zeroed image
EncodeSlots ==
  /\ pc = "slot_doc"
  /\ template' = WriteMessages(WriteAPRSDMR(Zeros(EmptyImageSize), doc), doc)
  /\ raised' = template'.err
  /\ pc' = IF raised' = "ok" THEN "slots_written" ELSE "slots_raised"
  /\ UNCHANGED <<doc, definitions, exit_status, port, plan, image1, image2, data, edited, dplan, decoded>>

\* the image written is the one handed to decompileCodeplug
LoadSlots ==
  /\ pc = "slots_written"
  /\ data' = template
  /\ pc' = "slot_image"
  /\ UNCHANGED <<doc, definitions, exit_status, port, plan, template, image1, image2, edited, dplan, decoded, raised>>

\* lines 580-604: the APRS DMR channel records and the quick messages read
DecodeSlots ==
  /\ pc = "slot_image"
  /\ raised' = FirstErr([i \in 1 .. 8 |->
                           fromBytesErr(aprs_dmr_record_parameters,
                                        Window(data, aprs_dmr_channel_start_address + (i - 1) * 8,
                                               aprs_dmr_channel_start_address + i * 8))]
                        \o <<ReadMessagesErr(data)>>)
  /\ IF raised' = "ok"
     THEN /\ decoded' = ("APRS" :> ("DMR channels" :> ReadAPRSDMR(data)))
                        @@ ("Quick messages" :> ReadMessages(data))
          /\ pc' = "slots"
     ELSE decoded' = decoded /\ pc' = "slots_raised"
  /\ UNCHANGED <<doc, definitions, exit_status, port, plan, template, image1, image2, data, edited, dplan>>

InitSections ==
  /\ \/ InitListImage
     \/ InitSlotDoc
  /\ InitCodecRest

NextSections ==
  \/ DecodeLists
  \/ EncodeSlots
  \/ LoadSlots
  \/ DecodeSlots

SpecSections == InitSections /\ [][NextSections]_vars

\* ------------------------------------------------------------- upload
\* The actions "upload" and "upload_bin" of the program: the document is
\* compiled, or the image is read from a file, and uploadCodeplug sends it
\* to the radio in blocks; the radio's replies are the environment's.

\* lines 971-974: the bytes of one block
upload_block_size == 2048

\* line 975: the most blocks the block count byte of the request can hold
max_block_count == 255

\* "Write".encode('ascii') and "Check".encode('ascii')
WriteReply == <<87, 114, 105, 116, 101>>

CheckReply == <<67, 104, 101, 99, 107>>

\* dummy_radio.py line 17: the reply of the radio to the request
dummy_radio_reply ==
  <<32, 32, 87, 114, 105, 116, 101, 95, 50, 77, 95, 0, 49, 48, 57, 69, 46, 68, 52, 46,
    69, 65, 82, 83, 65, 66, 46, 48, 48, 54, 46, 79, 99, 116, 32, 50, 56, 32, 50, 48,
    50, 48, 0, 0, 0, 0, 0, 0, 0, 49, 49, 58, 50, 51, 58, 50, 53, 0, 0, 43,
    68, 82, 83, 45, 51, 48, 48, 85, 86, 43, 49, 51, 54, 45, 52, 56, 48, 77, 72, 90,
    43, 255, 255, 255, 255, 255, 255, 255, 255, 255, 255, 255, 255>>

\* what port.read(93) can return after the request: nothing within the
\* timeout, one byte, the radio's reply, a reply cut short, another text,
\* bytes that are not ASCII
HandshakeReplies ==
  {<<>>, <<32>>, dummy_radio_reply, <<32, 32, 87, 114>>,
   <<32, 32, 69, 114, 114, 111, 114>>, <<32, 32, 255, 255, 255, 255, 255>>}

\* what port.read(5) can return after a block: "Write", "Check", nothing
\* within the timeout, a reply cut short, another text, bytes that are not
\* ASCII
BlockReplies ==
  {WriteReply, CheckReply, <<>>, <<87, 114, 105, 116>>, <<69, 114, 114, 111, 114>>,
   <<255, 255, 255, 255, 255>>}

\* bytes[lo:hi] of a bytes value
BytesSlice(bytes, lo, hi) == SubSeq(bytes, Min(lo, Len(bytes)) + 1, Min(hi, Len(bytes)))

\* lines 970-972: the data padded to a multiple of the block size
Padded(size) ==
  IF size % upload_block_size # 0
  THEN size + (upload_block_size - (size % upload_block_size))
  ELSE size

\* line 974
block_count(size) == size \div upload_block_size

\* mutant: every image is sent
TooLarge_never(count) == FALSE

\* line 975
TooLarge(count) == count > max_block_count

\* the process ends with exit status n: sys.exit(n), or 1 with the
\* traceback of an exception nothing catches; the with statement of line
\* 982 closes the port on the way out
Exit(n, e) ==
  /\ exit_status' = n
  /\ raised' = e
  /\ pc' = "exited"

\* the sizes of the image files: on both sides of one block, of two and of
\* the most the request can hold
ImageSizes ==
  {0, 1, upload_block_size, upload_block_size + 1, 3 * upload_block_size,
   max_block_count * upload_block_size, max_block_count * upload_block_size + 1,
   (max_block_count + 1) * upload_block_size}

\* documents with one scan list of n pairs and one RX group of m contacts
ListDoc(n, m) ==
  [BlankDoc EXCEPT
     !["Scan lists"] =
        << ("Selected channels" :> [j \in 1 .. n |-> ("Group" :> 1) @@ ("Channel" :> j)])
           @@ [Blank(scan_list_info) EXCEPT !["Name"] = <<83, 49>>] >>,
     !["RX groups"] = << ("Contacts" :> [j \in 1 .. m |-> j]) @@ ("Name" :> <<82, 49>>) >>]

\* lines 1251-1256: the action "upload", of a document whose lists are as
\* long as their records hold or one entry longer
InitUploadDoc ==
  \E n \in {0, 50, 51}, m \in {0, 100, 101} :
    /\ doc = ListDoc(n, m)
    /\ data = Zeros(0)
    /\ pc = "upload"

\* lines 1265-1268: the action "upload_bin", of an image file
InitUploadBin ==
  \E size \in ImageSizes :
    /\ doc = NoDoc
    /\ data = Zeros(size)
    /\ pc = "assemble"

InitUpload ==
  /\ \/ InitUploadDoc
     \/ InitUploadBin
  /\ InitCodecRest
  /\ definitions = <<>>

\* lines 1252-1254: compileCodeplug of the document; an exception of the
\* compile ends the process
UploadCompile ==
  /\ pc = "upload"
  /\ IF CompileCodeplug(doc).err = "ok"
     THEN /\ data' = CompileCodeplug(doc).template
          /\ pc' = "assemble"
          /\ UNCHANGED <<exit_status, raised>>
     ELSE /\ Exit(1, CompileCodeplug(doc).err)
          /\ data' = data
  /\ UNCHANGED <<doc, definitions, port, plan, template, image1, image2, edited, dplan, decoded>>

\* lines 968-980: the data is padded and the blocks are counted
Assemble ==
  /\ pc = "assemble"
  /\ data' = [data EXCEPT !.len = Padded(data.len)]
  /\ IF TooLarge(block_count(Padded(data.len)))
     THEN Exit(4, "SystemExit")
     ELSE pc' = "open" /\ UNCHANGED <<exit_status, raised>>
  /\ UNCHANGED <<doc, definitions, port, plan, template, image1, image2, edited, dplan, decoded>>

\* lines 982-989: the serial port is opened
OpenPort ==
  /\ pc = "open"
  /\ port' = [port EXCEPT !.open = TRUE, !.opened = TRUE]
  /\ pc' = "handshake"
  /\ UNCHANGED <<doc, definitions, exit_status, plan, template, image1, image2, data, edited,
                 dplan, decoded, raised>>

\* lines 990-1001: the request is written and the radio's reply is read
Handshake ==
  /\ pc = "handshake"
  /\ \E bytes \in HandshakeReplies :
       IF Len(bytes) <= 1
       THEN /\ port' = [port EXCEPT !.request = block_count(data.len), !.hello = bytes,
                                    !.open = FALSE]
            /\ Exit(1, "SystemExit")
       ELSE IF ~IsAscii(BytesSlice(bytes, 2, 7))
       THEN /\ port' = [port EXCEPT !.request = block_count(data.len), !.hello = bytes,
                                    !.open = FALSE]
            /\ Exit(1, "UnicodeDecodeError")
       ELSE IF BytesSlice(bytes, 2, 7) # WriteReply
       THEN /\ port' = [port EXCEPT !.request = block_count(data.len), !.hello = bytes,
                                    !.open = FALSE]
            /\ Exit(2, "SystemExit")
       ELSE /\ port' = [port EXCEPT !.request = block_count(data.len), !.hello = bytes]
            /\ pc' = "blocks"
            /\ UNCHANGED <<exit_status, raised>>
  /\ UNCHANGED <<doc, definitions, plan, template, image1, image2, data, edited, dplan, decoded>>

\* lines 1003-1013: one pass of the loop, for block i: the block is written
\* and the radio's reply is read
WriteBlock ==
  /\ pc = "blocks"
  /\ Len(port.blocks) < block_count(data.len)
  /\ \E bytes \in BlockReplies :
       LET i == Len(port.blocks)
           sent == [port EXCEPT !.blocks = Append(@, upload_block_size * i),
                                !.replies = Append(@, bytes)]
       IN IF ~IsAscii(bytes)
          THEN port' = [sent EXCEPT !.open = FALSE] /\ Exit(1, "UnicodeDecodeError")
          ELSE IF bytes = WriteReply
                  \/ (i = block_count(data.len) - 1 /\ bytes = CheckReply)
          THEN port' = sent /\ UNCHANGED <<pc, exit_status, raised>>
          ELSE port' = [sent EXCEPT !.open = FALSE] /\ Exit(2, "SystemExit")
  /\ UNCHANGED <<doc, definitions, plan, template, image1, image2, data, edited, dplan, decoded>>

\* line 1014 and the end of the program: every block is written, the port
\* is closed and the process ends
UploadComplete ==
  /\ pc = "blocks"
  /\ Len(port.blocks) = block_count(data.len)
  /\ port' = [port EXCEPT !.open = FALSE]
  /\ Exit(0, "ok")
  /\ UNCHANGED <<doc, definitions, plan, template, image1, image2, data, edited, dplan, decoded>>

NextUpload ==
  \/ UploadCompile
  \/ Assemble
  \/ OpenPort
  \/ Handshake
  \/ WriteBlock
  \/ UploadComplete

SpecUpload == InitUpload /\ [][NextUpload]_vars

\* --------------------------------------------------------- properties
\* compileCodeplug has planned the layout of doc
Planned == pc \notin {"plan", "count", "decode_planned"}

\* compileCodeplug has returned image1 for doc
Returned == pc \in {"compiled", "loaded", "decoded", "done"}

\* decompileCodeplug has planned the layout of data
DecodePlanned == dplan.zone_start_address # 0

\* the channels of doc in document order
DocChannels == AllChannels(doc["Zones"], Len(doc["Zones"]))

\* C1: a document of values within the declared domains comes back from
\* compileCodeplug followed by decompileCodeplug equal in every field value
\* of every section and collection.
C1_RoundTrip == (pc = "decoded" /\ ~edited) => decoded = doc

\* C2: compiling the document decoded from a compiled image gives an image
\* byte-for-byte identical to the compiled image.
C2_IdempotentReencode == pc = "done" => image2 = image1

\* C3: in the image compileCodeplug returns, every channel whose Rx Freq
\* differs from its Tx Freq has both forced-on flags stored as OFF (bits
\* 0x01 and 0x04 of byte 0x1D set), whatever the document's TS Rx and TS Tx.
C3_NonSimplexFlagsOff ==
  Returned =>
    \A c \in 1 .. Len(DocChannels) :
      DocChannels[c]["Rx Freq"] # DocChannels[c]["Tx Freq"] =>
        BitAnd(Rd(image1, plan.channel_start_address + 32 * (c - 1) + 29), 5) = 5

\* the first channel record of the image handed to decompileCodeplug has
\* both forced-on flags ON while its two frequencies differ
FlagsOnNonSimplex ==
  /\ Len(decoded["Zones"]) >= 1
  /\ Len(decoded["Zones"][1]["Channels"]) >= 1
  /\ BitAnd(Rd(data, plan.channel_start_address + 29), 5) = 0
  /\ decoded["Zones"][1]["Channels"][1]["Rx Freq"]
       # decoded["Zones"][1]["Channels"][1]["Tx Freq"]

\* the timeslot fields of one decoded channel against its 32-byte record
TimeslotDecoded(channel, channel_data) ==
  LET rx_on == BitAnd(WRd(channel_data, 29), 1) = 0
      tx_on == BitAnd(WRd(channel_data, 29), 4) = 0
      rx_label == IF BitAnd(WRd(channel_data, 20), 1) = 0 THEN "TS1" ELSE "TS2"
      tx_label == IF BitAnd(WRd(channel_data, 29), 2) = 0 THEN "TS1" ELSE "TS2"
  IN IF channel["Rx Freq"] # channel["Tx Freq"]
     THEN channel["TS Rx"] = rx_label /\ channel["TS Tx"] = tx_label
     ELSE /\ rx_on => channel["TS Rx"] = "ON"
          /\ tx_on => channel["TS Tx"] = "ON"

\* C4: a channel whose two frequencies differ decodes with TS Rx and TS Tx
\* at their literal TS1/TS2 label whatever the stored forced-on flags are;
\* a channel of equal frequencies whose forced-on flag of a direction is ON
\* decodes with that direction's timeslot equal to "ON".
C4_TimeslotDecode ==
  pc = "decoded" =>
    \A z \in 1 .. Len(decoded["Zones"]) :
      \A i \in 1 .. Len(decoded["Zones"][z]["Channels"]) :
        TimeslotDecoded(decoded["Zones"][z]["Channels"][i],
                        ChannelWindow(data, dplan.zone_start_address, z - 1, i - 1))

\* a channel of differing frequencies was decoded from a record the radio
\* left with both flags ON, and shows TS1 and TS2
C4_Witness ==
  /\ pc = "decoded"
  /\ edited
  /\ FlagsOnNonSimplex
  /\ decoded["Zones"][1]["Channels"][1]["TS Rx"] = "TS1"
  /\ decoded["Zones"][1]["Channels"][1]["TS Tx"] = "TS2"

BlockOf(p, n, size) ==
  p.num_contacts = n =>
    /\ p.contact_block_size = size
    /\ p.zone_start_address = contact_start_address + size

Sized(n, size) ==
  LET rounded == ((n * 16 + 1023) \div 1024) * 1024
  IN /\ size = rounded + (IF (rounded \div 1024) % 2 = 0 THEN 1024 ELSE 0)
     /\ size % 1024 = 0
     /\ (size \div 1024) % 2 = 1
     /\ size >= 1024
     /\ size >= n * 16

\* C6: for every contact count n in 0..65535 the planned contact block is
\* n*16 rounded up to a multiple of 1024, plus 1024 exactly when that is an
\* even number of 1024-byte units; it is an odd number, at least one, of
\* units and never smaller than n*16.
C6_ContactBlockSizing ==
  /\ pc = "encode_planned" => Sized(plan.num_contacts, plan.contact_block_size)
  /\ pc = "decode_planned" => Sized(dplan.num_contacts, dplan.contact_block_size)

\* the largest count: 1048560 bytes round to 1024 units, an even number
C6_Witness ==
  /\ pc = "encode_planned"
  /\ plan.num_contacts = 65535
  /\ plan.contact_block_size = 1049600

\* C7 as stated: contact_start_address < zone_start_address <
\* channel_start_address for every document.
C7_StrictOrdering ==
  Planned =>
    /\ contact_start_address < plan.zone_start_address
    /\ plan.zone_start_address < plan.channel_start_address

\* C7: contact_start_address < zone_start_address <= channel_start_address,
\* the channels starting 32 bytes per zone after the zones, so the second
\* inequality is strict exactly when the document has a zone.
C7_AddressOrdering ==
  Planned =>
    /\ contact_start_address < plan.zone_start_address
    /\ plan.zone_start_address <= plan.channel_start_address
    /\ plan.channel_start_address = plan.zone_start_address + 32 * plan.num_zones
    /\ plan.zone_start_address < plan.channel_start_address <=> plan.num_zones >= 1

\* a document without zones was planned: the channels start where the zones do
C7_Witness ==
  /\ pc = "counts"
  /\ plan.num_contacts = 65
  /\ plan.num_zones = 0
  /\ plan.channel_start_address = plan.zone_start_address

\* C8: every buffer compileCodeplug returns has a length that is a multiple
\* of 2048, equal to the planned codeplug_size, and at least
\* channel_start_address + 32 * (the number of channels).
C8_ImageLength ==
  /\ Returned =>
       /\ image1.len % 2048 = 0
       /\ image1.len = plan.codeplug_size
       /\ image1.len >= plan.channel_start_address + 32 * plan.num_channels
  /\ pc = "done" => image2.len % 2048 = 0

\* two channels after one contact and one zone end at 112736: the image
\* returned is the 56 blocks of 2048 bytes that hold them
C8_Witness ==
  /\ pc = "compiled"
  /\ plan.num_channels = 2
  /\ plan.channel_start_address + 32 * plan.num_channels = 112736
  /\ image1.len = 114688

\* C9: the record of the zone at position k (0-based) holds at bytes
\* 0x0D..0x0E the zone count plus one plus the channel counts of the zones
\* before it, and at bytes 0x0F..0x10 its own channel count.
C9_ZoneChannelOffset ==
  Returned =>
    \A k \in 0 .. Len(doc["Zones"]) - 1 :
      /\ FromBytesLE(image1, plan.zone_start_address + 32 * k + 13, 2)
           = Len(doc["Zones"]) + 1 + SumLens(doc["Zones"], k)
      /\ FromBytesLE(image1, plan.zone_start_address + 32 * k + 15, 2)
           = Len(doc["Zones"][k + 1]["Channels"])

\* the second of two zones, after a zone of two channels: offset 2 + 1 + 2
C9_Witness ==
  /\ pc = "compiled"
  /\ Len(doc["Zones"]) = 2
  /\ Len(doc["Zones"][1]["Channels"]) = 2
  /\ Len(doc["Zones"][2]["Channels"]) = 1
  /\ FromBytesLE(image1, plan.zone_start_address + 32 + 13, 2) = 5
  /\ FromBytesLE(image1, plan.zone_start_address + 32 + 15, 2) = 1

\* the three counters of a buffer against the collections of a document
CountersOf(m, codeplug) ==
  /\ FromBytesLE(m, 5007, 2) = Len(codeplug["Zones"])
  /\ FromBytesLE(m, 5009, 2) = SumLens(codeplug["Zones"], Len(codeplug["Zones"]))
  /\ FromBytesLE(m, 5011, 2) = Len(codeplug["Contacts"])

\* C10: the 16-bit little-endian counters at 0x138F, 0x1391 and 0x1393 of
\* the image returned equal the number of zones, of channels and of
\* contacts, and hold those values after every section write that follows
\* the write of the counters.
C10_HeaderCounters ==
  /\ pc \in {"singletons", "aprs", "aprs_dmr", "messages", "contacts", "scan_lists",
             "rx_groups", "zones", "channels", "check"} => CountersOf(template, doc)
  /\ Returned => CountersOf(image1, doc)
  /\ pc = "done" => CountersOf(image2, decoded)

\* 65 contacts and one zone of one channel, after the last section write
C10_Witness ==
  /\ pc = "check"
  /\ Len(doc["Contacts"]) = 65
  /\ Len(doc["Zones"]) = 1
  /\ Rd(template, 5011) = 65
  /\ Rd(template, 5009) = 1
  /\ Rd(template, 5007) = 1

\* the stored byte of a tone field of the channel record in data
StoredTone(f) == Rd(data, FieldNamed(channel_info, f).off)

\* json.dumps of a channel's tone value, line 727: a CTCSS tone is a float,
\* every other tone value an int
ToneText(type, tone) == IF type = "CTCSS" THEN FloatStr(tone) ELSE Digits(tone)

\* "D" + the code on three digits + the polarity marker
DCodeText(code, marker) == <<68>> \o ZFill(Digits(code), 3) \o <<marker>>

\* C11 as stated: a decoded channel's tone field of type DCS or DCS Invert
\* holds the DCS table entry formatted with its polarity marker (D<code>N or
\* D<code>I), a CTCSS tone holds the CTCSS frequency, and the document never
\* holds the raw stored index.
C11_MarkedTones ==
  pc = "channel" =>
    \A f \in ToneFields :
      LET type == decoded[f[1]]
          text == ToneText(type, decoded[f[2]])
      IN /\ type = "CTCSS" =>
              /\ text = FloatStr(CTCSS_Tones[StoredTone(f[2]) + 1])
              /\ decoded[f[2]] # StoredTone(f[2])
         /\ type = "DCS" => text = DCodeText(DCS_Codes[StoredTone(f[2]) + 1], 78)
         /\ type = "DCS Invert" => text = DCodeText(DCS_Codes[StoredTone(f[2]) + 1], 73)

\* C11: a decoded channel's tone field of type DCS or DCS Invert holds the
\* DCS table entry at the stored index as a bare number, the polarity being
\* carried by the tone type only; a CTCSS tone holds the CTCSS frequency at
\* the stored index; neither is ever the stored index itself; with type OFF
\* the field holds the stored byte as it is.
C11_ResolvedTones ==
  pc = "channel" =>
    \A f \in ToneFields :
      LET type == decoded[f[1]]
          tone == decoded[f[2]]
          index == StoredTone(f[2])
      IN /\ type = "CTCSS" =>
              /\ index < Len(CTCSS_Tones)
              /\ tone = CTCSS_Tones[index + 1]
              /\ ToneText(type, tone) = FloatStr(CTCSS_Tones[index + 1])
              /\ tone # index
         /\ type \in {"DCS", "DCS Invert"} =>
              /\ index < Len(DCS_Codes)
              /\ tone = DCS_Codes[index + 1]
              /\ ToneText(type, tone) = Digits(DCS_Codes[index + 1])
              /\ tone # index
         /\ type = "OFF" => tone = index

\* a channel decoded with the last DCS code, inverted, on transmit
C11_Witness ==
  /\ pc = "channel"
  /\ decoded["Tone Type Tx"] = "DCS Invert"
  /\ decoded["Tone Tx"] = 754
  /\ StoredTone("Tone Tx") = 107

\* the stored AX25 QT/DQT value of an image
StoredQT(m) == FromBytesLE(m, FieldNamed(aprs_parameters, "AX25 QT/DQT").off, 2)

\* C12: for every stored tone value that decode resolves to a tone (a channel
\* tone index with type CTCSS, DCS or DCS Invert, and every stored AX25 QT/DQT
\* value decoded to a CTCSS frequency or a D-code string), encoding the
\* decoded value succeeds and recovers exactly the stored value.
C12_ToneInverse ==
  /\ pc \in {"channel_written", "channel_raised"} =>
       \A f \in ToneFields :
         decoded[f[1]] # "OFF" =>
           /\ pc = "channel_written"
           /\ Rd(template, FieldNamed(channel_info, f[2]).off) = StoredTone(f[2])
  /\ (pc \in {"aprs_written", "aprs_raised"} /\ decoded["APRS"]["AX25 QT/DQT"] # StrOff) =>
       /\ pc = "aprs_written"
       /\ StoredQT(template) = StoredQT(data)

\* C13: the stored tone value 53 decodes to the first DCS table entry
\* formatted as "D017N", and encoding "D017N" recovers the stored value 53.
C13_SampleD017N ==
  /\ pc = "decode_raised" => StoredQT(data) # 53
  /\ (pc \in {"aprs", "aprs_written", "aprs_raised"} /\ StoredQT(data) = 53) =>
       /\ decoded["APRS"]["AX25 QT/DQT"] = DCodeText(DCS_Codes[1], 78)
       /\ decoded["APRS"]["AX25 QT/DQT"] = <<68, 48, 49, 55, 78>>
  /\ (pc \in {"aprs_written", "aprs_raised"}
        /\ decoded["APRS"]["AX25 QT/DQT"] = <<68, 48, 49, 55, 78>>) =>
       /\ pc = "aprs_written"
       /\ StoredQT(template) = 53

\* "D017N" decoded from the stored value 53 and written again
C13_Witness ==
  /\ pc = "aprs_written"
  /\ StoredQT(data) = 53
  /\ decoded["APRS"]["AX25 QT/DQT"] = <<68, 48, 49, 55, 78>>
  /\ StoredQT(template) = 53

\* the bytes Parser.toBytes assigns for a record: the width of each Number and
\* the length of the text of each String
Assigned(defs, record) ==
  UNION {IF defs[i].kind = "Number" THEN FieldBytes(defs[i])
         ELSE IF defs[i].kind = "String"
         THEN defs[i].off .. defs[i].off + Len(record[defs[i].name]) - 1
         ELSE {} : i \in 1 .. Len(defs)}

\* every bit set in the byte before is set in the byte after
KeepsBits(before, after) == BitAnd(after, before) = before

\* C14 as stated: for every field kind (String, Number, Bitmask, MaskNum)
\* Parser.toBytes combines the field into the buffer by bitwise OR, so every
\* bit set in the buffer before the encode is still set afterwards.
C14_OrOnly ==
  pc = "written" => \A a \in DOMAIN data.b : KeepsBits(Rd(data, a), Rd(template, a))

\* C14: Parser.toBytes combines a Bitmask and a MaskNum field into the buffer
\* by bitwise OR, and assigns the bytes of a Number (its whole width) and of
\* a String (the length of its text, which can be more than the width of
\* the field): every bit set before the encode in a byte that no Number or
\* String text covers is still set afterwards, a byte that no field and no
\* String text covers is unchanged, and the buffer keeps its length.
C14_OrOrAssign ==
  pc = "written" =>
    /\ template.len = data.len
    /\ \A a \in DOMAIN data.b \cup DOMAIN template.b :
         /\ a \notin Assigned(definitions, doc) => KeepsBits(Rd(data, a), Rd(template, a))
         /\ a \notin Assigned(definitions, doc)
                      \cup UNION {FieldBytes(definitions[i]) : i \in 1 .. Len(definitions)} =>
              Rd(template, a) = Rd(data, a)

\* a channel record whose byte 0x14 held 0xFF before Alarm "ON" was encoded
C14_Witness ==
  /\ pc = "written"
  /\ definitions = channel_info
  /\ doc["Alarm"] = "ON"
  /\ Rd(data, FieldNamed(channel_info, "Alarm").off) = 255
  /\ Rd(template, FieldNamed(channel_info, "Alarm").off) = 255

\* the field's storage holds the numeric value: a Number within its width, a
\* MaskNum whose stored value has no bit outside the mask
Storable(d, v) ==
  CASE d.kind = "Number" -> Fits(v, d.arg)
    [] d.kind = "MaskNum" ->
         EncodeTransform(d.tf, v) >= 0
           /\ BitAnd(EncodeTransform(d.tf, v), d.arg) = EncodeTransform(d.tf, v)
    [] OTHER -> TRUE

\* C15: a record of values of the declared domains encoded into a zeroed
\* buffer decodes with every field at the value given for it, whatever the
\* other fields hold.
C15_FieldIndependence ==
  (/\ pc = "read_back"
   /\ data.b = NoBytes
   /\ \A i \in 1 .. Len(definitions) : Storable(definitions[i], doc[definitions[i].name])) =>
    \A key \in DOMAIN doc : decoded[key] = doc[key]

\* C16: an encode that is handed a numeric value its field's storage does
\* not hold (a Number wider than its width, a MaskNum with bits outside the
\* mask) fails; it never ends with the value truncated or masked.
C16_OverflowRaises ==
  pc = "written" =>
    \A i \in 1 .. Len(definitions) : Storable(definitions[i], doc[definitions[i].name])

\* C17: for every MaskNum field with a transform pair and every stored byte,
\* encoding the value decoded from the masked byte writes back exactly the
\* masked byte, and the value written decodes to the same value.
C17_TransformInverse ==
  /\ pc # "record_raised"
  /\ pc = "written_back" =>
       \A i \in 1 .. Len(definitions) :
         (definitions[i].kind = "MaskNum" /\ definitions[i].tf # "none") =>
           /\ BitAnd(Rd(template, definitions[i].off), definitions[i].arg)
                = BitAnd(Rd(data, definitions[i].off), definitions[i].arg)
           /\ DecodeField(definitions[i], Whole(template)) = decoded[definitions[i].name]

\* the strongest RSSI byte decoded to -345 and written back as 255
C17_Witness ==
  /\ pc = "written_back"
  /\ definitions = basic_parameters
  /\ Rd(data, FieldNamed(basic_parameters, "RSSI set").off) = 255
  /\ decoded["RSSI set"] = -345
  /\ Rd(template, FieldNamed(basic_parameters, "RSSI set").off) = 255

\* the masked byte of a Bitmask field is no key of its enum table
Missed(d, m) == d.kind = "Bitmask" /\ ~EnumHas(d.enum, BitAnd(Rd(m, d.off), d.arg))

\* the buffer with the bits of the field replaced by the first key of its table
Repaired(m, d) ==
  Put(m, d.off, Rd(m, d.off) - BitAnd(Rd(m, d.off), d.arg) + BitAnd(d.enum[1][1], d.arg))

\* C18: when the masked byte of a Bitmask field is no key of its enum table,
\* Parser.fromBytes raises nothing, gives that field the empty value, and
\* decodes every other field as it does from the same bytes without the miss.
C18_LookupMissLocal ==
  pc \in {"record", "decode_raised"} =>
    \A i \in 1 .. Len(definitions) :
      Missed(definitions[i], data) =>
        /\ pc = "record"
        /\ decoded[definitions[i].name] = ""
        /\ \A j \in 1 .. Len(definitions) :
             j # i => decoded[definitions[j].name]
                        = DecodeField(definitions[j], Whole(Repaired(data, definitions[i])))

\* a channel record whose byte 0x15 is 0xFF: TX Policy has no key 0xC0
C18_Witness ==
  /\ pc = "record"
  /\ definitions = channel_info
  /\ Rd(data, FieldNamed(channel_info, "TX Policy").off) = 255
  /\ Missed(FieldNamed(channel_info, "TX Policy"), data)
  /\ decoded["TX Policy"] = ""
  /\ \E j \in 1 .. Len(channel_info) :
       /\ channel_info[j].off = FieldNamed(channel_info, "TX Policy").off
       /\ channel_info[j].name # "TX Policy"
       /\ decoded[channel_info[j].name] # Blank(channel_info)[channel_info[j].name]

\* the text of message slot i of an image, empty when its bytes are not ASCII
SlotText(m, i) ==
  IF IsAscii(Slice(m, start_of_message(i), start_of_message(i) + message_record_size))
  THEN RStripNul(Slice(m, start_of_message(i),
                       start_of_message(i) + message_record_size))
  ELSE <<>>

\* C19: a message slot whose bytes do not decode as plain text contributes
\* no entry, every other slot is decoded as if the bad slot were empty, and
\* the decode does not abort, at every slot position including the first.
C19_BadSlotSkipped ==
  pc \in {"messages", "messages_raised"} =>
    /\ pc = "messages"
    /\ decoded["Quick messages"]
         = SelectSeq([i \in 1 .. message_block_1_count + message_block_2_count |->
                        SlotText(data, i - 1)],
                     LAMBDA s : Len(s) # 0)

\* the pair stored in slot j of the first scan list record of an image
SlotPair(m, j) ==
  ("Group" :> FromBytesLE(m, scan_list_start_address + 16 + j * 4, 2))
  @@ ("Channel" :> FromBytesLE(m, scan_list_start_address + 16 + j * 4 + 2, 2))

\* C20: decoding a named scan list scans all 50 pair slots and retains, in
\* slot order, exactly the slots that are not the absent sentinel, a slot
\* being absent only when both its group id and its channel id are zero.
C20_SlotRetention ==
  pc = "scan_lists" =>
    /\ Len(decoded["Scan lists"]) = 1
    /\ decoded["Scan lists"][1]["Selected channels"]
         = SelectSeq([j \in 1 .. 50 |-> SlotPair(data, j - 1)],
                     LAMBDA pair : ~(pair["Group"] = 0 /\ pair["Channel"] = 0))

\* the slots of a 250-slot section whose bytes lo .. hi - 1 of the record
\* hold a non-zero byte
SlotsHolding(m, start, size, lo, hi) ==
  {i \in TouchedSlots(m, start, size) :
     \E a \in start + i * size + lo .. start + i * size + hi - 1 : Rd(m, a) # 0}

\* the slots holding a name or a member entry
Materialized(m, start, size, members) ==
  SlotsHolding(m, start, size, 0, 10) \cup SlotsHolding(m, start, size, members, size)

\* C21: of the 250 scan-list slots and the 250 RX-group slots, the decoded
\* document leaves out exactly those with an empty name and no member entry: a
\* slot with an empty name and a non-zero member entry is in the document.
C21_SparseMaterialization ==
  pc = "lists" =>
    /\ Len(decoded["Scan lists"]) =
         Cardinality(Materialized(data, scan_list_start_address, scan_list_record_size, 16))
    /\ Len(decoded["RX groups"]) =
         Cardinality(Materialized(data, rx_group_start_address, rx_group_record_size, 10))

\* the bytes [lo, hi) and [lo2, hi2) have no byte in common
Apart(lo, hi, lo2, hi2) == hi <= lo2 \/ hi2 <= lo

MessageSlots == 0 .. message_block_1_count + message_block_2_count - 1

\* C22: decode and encode place message slot i of 0..99 at the same address,
\* no two of the 100 slots of 40 bytes share a byte (slots 14 and 15 lie in
\* different blocks), and each message written is found where the decoder
\* reads its slot.
C22_MessageAddressing ==
  /\ \A i \in MessageSlots : start_of_message(i) = start_address(i)
  /\ \A i \in MessageSlots, j \in MessageSlots :
       i < j => Apart(start_address(i), start_address(i) + message_record_size,
                      start_address(j), start_address(j) + message_record_size)
  /\ pc = "slot_image" =>
       \A i \in 1 .. Len(doc["Quick messages"]) :
         Slice(data, start_of_message(i - 1),
               start_of_message(i - 1) + Len(doc["Quick messages"][i]))
           = doc["Quick messages"][i]

C22_Witness ==
  /\ pc = "slot_image"
  /\ Len(doc["Quick messages"]) = message_block_1_count + 1
  /\ start_of_message(message_block_1_count - 1)
       = message_block_1_start_addr + (message_block_1_count - 1) * message_record_size
  /\ start_of_message(message_block_1_count) = message_block_2_start_addr
  /\ Rd(data, message_block_2_start_addr) = 66

\* C27: the byte ranges of the quick-message slots, the APRS DMR channel
\* records, the APRS singleton fields, the scan-list slots, the RX-group slots
\* and the contact block are pairwise disjoint: the APRS DMR channel records
\* decode to what the document held whatever quick messages were written,
\* and the quick messages decode to those of the document whatever the
\* APRS DMR channel records hold.
C27_SectionsDisjoint ==
  pc = "slots" =>
    /\ \A i \in MessageSlots, r \in 0 .. 7 :
         Apart(start_address(i), start_address(i) + message_record_size,
               aprs_dmr_channel_start_address + 8 * r,
               aprs_dmr_channel_start_address + 8 * (r + 1))
    /\ decoded["APRS"]["DMR channels"] = doc["APRS"]["DMR channels"]
    /\ decoded["Quick messages"] = doc["Quick messages"]

\* a scan list of the document has more pairs than its record holds, or an
\* RX group more contacts
Overfull(codeplug) ==
  /\ DOMAIN codeplug # {}
  /\ \/ \E i \in 1 .. Len(codeplug["Scan lists"]) :
          Len(codeplug["Scan lists"][i]["Selected channels"]) > 50
     \/ \E i \in 1 .. Len(codeplug["RX groups"]) :
          Len(codeplug["RX groups"][i]["Contacts"]) > 100

\* C23: when the buffer built differs in length from the planned size, as
\* after a scan list of more than 50 pairs or an RX group of more than 100
\* contacts, compileCodeplug returns no buffer and the process ends with
\* exit status 4.
C23_SizeMismatchExit4 ==
  (pc # "upload" /\ Overfull(doc)) =>
    /\ pc = "exited"
    /\ exit_status = 4
    /\ data = Zeros(0)
    /\ ~port.opened

\* the image handed to uploadCodeplug needs more blocks than the request
\* can hold
Oversized == data.len > max_block_count * upload_block_size

\* C24: an image of more than 255 blocks of 2048 bytes is given up as a
\* fatal error before the serial port is opened and before any byte is
\* written to the radio.
C24_CapacityBeforeTransport ==
  Oversized =>
    /\ ~port.opened
    /\ port.request = ClosedPort.request
    /\ port.blocks = <<>>
    /\ pc \in {"assemble", "exited"}
    /\ pc = "exited" => exit_status > 0

C24_Witness ==
  /\ Oversized
  /\ data.len = (max_block_count + 1) * upload_block_size
  /\ pc = "exited"
  /\ exit_status = 4
  /\ port = ClosedPort

\* C25: the process ends with exit status 3 when the codeplug is larger
\* than 255 pages, and with exit status 4 only when the compiled size
\* differs from the planned one.
C25_OversizeExit3 ==
  pc = "exited" =>
    /\ Oversized => exit_status = 3
    /\ exit_status = 4 => Overfull(doc)

\* the replies to the blocks written before the last one written
Earlier(list) == SubSeq(list, 1, Len(list) - 1)

\* C30: no block is written before the reply to the request carries "Write"
\* at bytes 2..6; the blocks are written in index order, each after the
\* reply "Write" to the one before; "Check" is accepted for the last block
\* only; an empty reply to the request ends the run with exit status 1, and
\* any other unexpected reply, an empty read after a block included, ends it
\* with exit status 2 and no further block written.
C30_UploadOrdering ==
  /\ port.blocks # <<>> => BytesSlice(port.hello, 2, 7) = WriteReply
  /\ \A n \in 1 .. Len(port.blocks) : port.blocks[n] = upload_block_size * (n - 1)
  /\ Len(port.replies) = Len(port.blocks)
  /\ \A n \in 1 .. Len(port.replies) - 1 : port.replies[n] = WriteReply
  /\ (pc = "exited" /\ port.opened) =>
       /\ exit_status = 0 <=>
            /\ BytesSlice(port.hello, 2, 7) = WriteReply
            /\ Len(port.blocks) = block_count(data.len)
            /\ port.replies = <<>> \/ port.replies[Len(port.replies)] \in {WriteReply, CheckReply}
       /\ exit_status = 1 <=> port.hello = <<>>
       /\ exit_status = 2 <=>
            \/ port.hello # <<>> /\ BytesSlice(port.hello, 2, 7) # WriteReply
            \/ /\ port.replies # <<>>
               /\ port.replies[Len(port.replies)] # WriteReply
               /\ ~(/\ Len(port.blocks) = block_count(data.len)
                    /\ port.replies[Len(port.replies)] = CheckReply)

\* the bytes of a window, as the sequence the decoder is handed
WindowBytes(w) == WSlice(w, 0, w.len)

\* C26: the decoder computes the zone_start_address the encoder planned and
\* decodes as many zones as the document holds; for the zone at position k it
\* reads as many channel records as the encoder wrote for it, each at the
\* address the encoder wrote it at and holding the bytes the encoder wrote;
\* these 32-byte ranges follow one another in document order from
\* channel_start_address, so that those of distinct zones are disjoint and
\* together tile the channel block.
C26_PlacementAgrees ==
  (pc = "decoded" /\ ~edited) =>
    /\ dplan.zone_start_address = plan.zone_start_address
    /\ dplan.num_zones = Len(doc["Zones"])
    /\ Len(decoded["Zones"]) = Len(doc["Zones"])
    /\ \A k \in 0 .. Len(doc["Zones"]) - 1 :
         /\ Len(decoded["Zones"][k + 1]["Channels"]) = Len(doc["Zones"][k + 1]["Channels"])
         /\ \A i \in 0 .. Len(doc["Zones"][k + 1]["Channels"]) - 1 :
              /\ ChannelWindow(data, dplan.zone_start_address, k, i).lo
                   = plan.channel_start_address
                     + channel_record_size * (SumLens(doc["Zones"], k) + i)
              /\ ChannelWindow(data, dplan.zone_start_address, k, i).len = channel_record_size
              /\ WindowBytes(ChannelWindow(data, dplan.zone_start_address, k, i))
                   = Slice(channel_record(doc["Zones"][k + 1]["Channels"][i + 1]),
                           0, channel_record_size)

\* two zones of two channels and one: the channel of the second zone is
\* read at the third record of the channel block
C26_Witness ==
  /\ pc = "decoded"
  /\ ~edited
  /\ Len(doc["Zones"]) = 2
  /\ Len(doc["Zones"][1]["Channels"]) = 2
  /\ Len(doc["Zones"][2]["Channels"]) = 1
  /\ ChannelWindow(data, dplan.zone_start_address, 1, 0).lo
       = plan.zone_start_address + 2 * zone_record_size + 2 * channel_record_size
  /\ decoded["Zones"][2]["Channels"][1]["ID"] = 21

\* the record handed to toBytes holds the values decoded from zero bytes in
\* every field but definitions[i]
OnlyField(i) == doc = [Blank(definitions) EXCEPT ![definitions[i].name] = doc[definitions[i].name]]

\* C28: for every Bitmask field of the program's schemas and every label of
\* its enum table, the label encoded into a zeroed record sets no bit outside
\* the field's mask, and the record decodes to the same label.
C28_BitmaskWithinMask ==
  (pc = "read_back" /\ data.b = NoBytes) =>
    \A i \in 1 .. Len(definitions) :
      (/\ definitions[i].kind = "Bitmask"
       /\ OnlyField(i)
       /\ \E n \in 1 .. Len(definitions[i].enum) :
            definitions[i].enum[n][2] = doc[definitions[i].name]) =>
        /\ BitAnd(Rd(template, definitions[i].off), Unmasked(definitions[i].arg)) = 0
        /\ decoded[definitions[i].name] = doc[definitions[i].name]

\* C29: the encode of a String field changes no byte outside the declared
\* width of the field, [offset, offset + width): a text longer than the
\* width does not reach the bytes of the fields next to it.
C29_StringWithinField ==
  pc = "written" =>
    \A i \in 1 .. Len(definitions) :
      (definitions[i].kind = "String" /\ OnlyField(i)) =>
        \A a \in DOMAIN data.b \cup DOMAIN template.b :
          a \notin FieldBytes(definitions[i]) => Rd(template, a) = Rd(data, a)

====
